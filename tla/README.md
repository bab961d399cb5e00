# BridgeLM in TLA+

BridgeLM is a bridge between LLM clients and an upstream endpoint.  It forwards
`/proxy/**`, keeps every exchange in SQLite, broadcasts what happens to a
dashboard, and lets the dashboard manage named configurations of which one is
in force.  These modules model the server and the dashboard's script as the code
has them, TLC checks small instances, and TLAPS proves what holds for every
instance.

## 1. The system

| Component | Code | State | Operations | Talks to |
|---|---|---|---|---|
| Configuration service | `Application/Services/BridgeConfigurationService.cs` | `activeConfigurationName` (under a lock) | initialize, create, update (one or the active one), duplicate, rename, delete, select, list, get | awaits the catalog store; writes the runtime settings |
| Catalog store | `Infrastructure/Persistence/SqliteBridgeConfigurationStore.cs` | table `bridge_configurations` in the bootstrap database | seed, list, get, upsert, rename, delete, set active (one transaction) | SQLite |
| Runtime settings store | `Services/InMemoryBridgeRuntimeSettingsStore.cs` | the options in force (cloned under a lock) | get, update | read by proxy service and connection factory |
| Connection factory, schema | `SqliteConnectionFactory.cs`, `SqliteSchemaInitializer.cs` | which database a statement goes to; which tables exist | connect, create tables at startup, or end it | both stores |
| Proxy endpoint | `ProxyAsync` in `Program.cs` | one exchange's locals: session, capture, response | read, forward, copy chunk by chunk, record, answer 502, dispose | proxy service, client, upstream |
| Proxy service | `BridgeProxyService.cs` | none | start, publish chunk, complete, fail, list, get, delete, truncate | forwarder, log store, sink |
| Request log | `SqliteRequestLogStore.cs` | table `request_logs` in the database *in force* | add, complete, fail, get, list, delete, truncate | SQLite |
| Event sink, hub | `SignalRProxyEventSink.cs`, `BridgeHub.cs` | connections | three broadcasts | every dashboard |
| Forwarder | `ConfiguredLlmForwarder.cs` | none | send | upstream |
| Configuration endpoints | `Program.cs` | none | parse, call, map exceptions to answers | configuration service |
| Dashboard, requests | `wwwroot/app.js` 165-220, 540-628, 761-887, 1267-1345 | the list, the selection, its detail, the modal, busy flags | fetch, select, delete, truncate, three events, boot | API and hub |
| Dashboard, editor | `app.js` 20-35, 230-330, 640-720, 793-815, 889-1060 | the list of configurations, the form, the draft, the typed key | load, save, activate, rename, duplicate, delete | API |
| Dashboard, switcher | `app.js` 396-538, 1063-1150 | open, search, highlight | open, close, search, arrows, Enter, click | the editor's functions, of which it starts one |

What makes each part correct, and where that is hard:

- *Configuration service*: memory, SQLite and what a restart would load are one
  configuration; at least one remains; the active one is not deleted; a create
  never replaces.  The operations await SQLite between reading and writing, no
  lock spans an await, so two HTTP requests interleave at every store call, and
  the process can die at each.
- *Proxy*: what the row says, what the feed said and what the client got agree;
  every resource is given back; every exchange ends.  The client can leave, the
  upstream refuse or break off, a statement or a broadcast fail, the settings
  (and with them the database) change, rows be deleted, and the process die at
  each await.
- *Forwarder*: the right headers and key go to the right endpoint.
- *Dashboard*: what it shows is what the server has, and what its buttons do is
  about what it shows.  JavaScript runs one handler at a time, but each `await`
  lets clicks, other answers and the hub's events in between; answers may
  overtake one another, calls fail, events get lost while the connection is
  down, and other clients change what was fetched.

## 2. The modules

| Module | What it is |
|---|---|
| `BridgeConfigurations` | the data of a configuration: options, partial updates, `ApplyUpdate`, and the two ways names are compared |
| `ConfigCatalog` | configuration service + catalog store + runtime settings: one action per step between awaits, any number of handlers, crashes |
| `SavedConfigurations` | abstract specification: the atomic catalog the API promises |
| `CatalogProperties` | type invariant and properties of `ConfigCatalog`, the refinement mapping |
| `CatalogProofs` | theorems about `ConfigCatalog` |
| `CatalogRefinement` | the proof that `ConfigCatalog` implements `SavedConfigurations` |
| `MCConfigCatalog` | its small instances |
| `ProxyExchanges` | proxy endpoint + proxy service + request log + event sink + connection factory: one action per await |
| `ProxyProperties`, `MCProxyExchanges` | its properties and instances |
| `ProxyProofs` | theorems about an exchange and its row, and about the feed, how it relates to client and log, and how rows end |
| `Dashboard` | the request part of one tab: its handlers up to each await, the API calls and events in between, and of the server what the tab can see |
| `DashboardProperties`, `MCDashboard` | its properties and instance |
| `DashboardProofs`, `DashboardOrderProofs` | theorems about its modal and its busy states, and about what list and detail show |
| `ConfigEditor` | the configuration editor: each async function behind a button as a flow of calls; its server is `SavedConfigurations` |
| `EditorProperties`, `MCConfigEditor` | its properties and instances |
| `EditorProofs`, `CalmEditorProofs` | theorems about it: whatever goes wrong, and for a user who waits |
| `ConfigSwitcher` | the switcher's panel, search and highlight, and what it shows of them |
| `SwitcherProperties`, `SwitcherProofs`, `MCConfigSwitcher` | its properties, theorems and instance |

The abstract catalog serves twice: `ConfigCatalog` implements it, and
`ConfigEditor` uses it as its server.

### ConfigCatalog

`rows[n]` is the row of the name `n`: its options and its `is_default` flag.
`activeConfigurationName` and `current` are the two in-memory values, `phase`
is the startup: `Seed`, `MarkSeed`, `KeepCatalog` and `Load` are the statements of
`InitializeAsync` (Program.cs:35); then the request log is created in the database
that the active configuration names (Program.cs:36), which SQLite can open
(`OpenLog`) or not, and then the process ends (`OpenLogFails`) and starts anew.
Which connection strings can be opened is a constant, `Openable`.  A handler `h` serves `req[h]`, stands before step `at[h]`,
and holds in `draft[h]` the configuration it has read or is about to save.
A step is one await of the store, or one use of the lock, with the code up to
the next one.  `Abort` is an exception at a store call (the cancelled token, a
SQLite error); `Crash` loses memory and handlers and keeps the rows.

Abstracted:

- Names are the classes that SQLite's `NOCASE` makes, numbered in its order;
  `Fold` gives their class under `OrdinalIgnoreCase`, by which the service
  compares in memory.  The two differ beyond ASCII.  `NoName` is a name
  `ValidateName` refuses, or no `copyFromName`.
- Options have three fields, one for each way `ApplyUpdate` treats a member: a
  text that is kept when blank (`backend`), the API key that is cleared when
  empty and kept when absent (`apiKey`, and the header map), the connection
  string and the limit (`store`).
- Time stamps and the answers' bodies are left out.  `ListAsync` and
  `GetAsync` change nothing and are left out.

### SavedConfigurations, and the refinement

The abstract catalog has named options and a selected name, and six operations
that happen at once.  `ConfigCatalog` maps the rows' options to
`configurations` and the marked row to `selected`; a handler's other steps, the
memory and restarts are stuttering.  The refinement is checked with one handler
at a time; with two it does not hold, and the violation runs say how.

### ProxyExchanges

An exchange `i` is one proxied request.  `step[i]` is the await it stands
before; `backend`, `session`, `captured`, `written`, `hasStarted` are its
locals and its response; `ended` says that the upstream's response was read to
its end, `sentTo` where the request went; `feed[i]` is what was broadcast about
it.  `log[s][i]` is its row in database `s`, and each statement goes to
`log[current.store]`, as the connection factory has it.  `tables` are the
databases that were in force at some startup: only those have the table.

`Faults` names what may go wrong in an instance (`leave`, `refuse`, `drop`,
`sqlite`, `sink`, `switch`), so that a property can say which faults it
survives.  A cancelled token makes statements, reads and writes fail at entry.
A broadcast with a cancelled token may or may not go out, and may or may not
throw.  Bodies are counted in chunks.  `Answer` may miss its reader where a
`Content-Length` of the upstream was copied before the failure.  Headers,
status codes and durations are left out.

### Dashboard

`page` holds the members of `state` this part of the script uses; every
function of `app.js` is an operator from page to page (`RefreshRequests`,
`BeginDetail` and `EndDetail` around an await, `RemoveRequest`, ...), and each
handler an action that applies it.  `deleteEnabled` is the Delete button as
`renderRequestDetail` last left it, which is not always what the flags say.
`calls` are the API calls the server has not processed, `inbox` the answers and
events on their way.  `boot` is the await `initialize` stands before.  The server
is the rows (`log`) and for each request how far its exchange has got
(`exchange`, `sent`): the steps of `ProxyExchanges` that a tab can see.  `missed`
remembers of which requests an event was lost and not made up for by a fetch.

`faults` is chosen once per behaviour from `FaultSets`: calls and answers that
overtake one another, calls that fail with or without their effect, a connection
that breaks, exchanges that die, deletions by others, a user who does not wait.
Properties of calls in order say `InOrder`.

Abstracted: of a row the status and the chunks of the body; the lines of the
live feed, which no handler reads; the confirmation before a deletion, which
stops the tab; routes; DOM focus.  The two calls of `refreshNamedConfigs` during
the boot are one here.

### ConfigEditor

A flow `f` is an async function under way: `kind` says which button, `op` the
call it awaits, `data` the answer, `name`/`to`/`update` its arguments.  `Serve`,
`Refuse` and `Fail` are the server's part, `Resume` the code after an await,
with `After` the change to the page and `Following` the next call, and
`ResumeLoad`, `ResumeEmpty` (a list with nothing in it) and `ResumeError` its
ends.  `page.shown`, `input` and `listShown` are what the
form and the list were last rendered with; `selectedConfig`,
`selectedConfigName` and `namedConfigs` the members of `state` that may have
moved on.  `keyFor` and `unrendered` are histories.  Of the form's texts the
name and the API key are told apart, for they decide what is called; `Payload`
has the others as one value.  Error texts are left out.

`activateNamedConfiguration` has two callers: the button of the form (`Activate`)
and the switcher in the header (`ActivateFromSwitcher`), which takes any
configuration of its options, or of the list as it is now (Enter), whatever the
form shows.  `page.options` are the options the switcher shows, {} while it is
closed; search and highlight are in `ConfigSwitcher`.

`scenario` is chosen once per behaviour from the constant `Scenarios`: which names
and keys are typed, and what may go wrong.  Calls fail before or after they took
effect (`fail`), other clients change, activate or remove configurations, also the
last one, as only requests that race can (`elsewhere`), and the user does not
wait for functions that are under way (`hasty`).  Each goes wrong any number of
times, at any moment.

### ConfigSwitcher

`switcher` holds the state, `screen` what was rendered.  `Mended` is the repair
that `renderConfigSwitcher` makes before it shows anything,
`SetConfigSwitcherOpen` keeps its early return.  Which configurations a search
finds is a constant, `Matches`; which list arrives is left open.  `unrendered`
says that the list was replaced (794) and not rendered yet (820).

## 3. The runs

All instances are exhaustive up to their bounds.

| Run | Instance | Shows |
|---|---|---|
| `catalog_sequential` | 1 handler, 3 names, all operations with 4 kinds of update, 1 crash | `CoherentWhenIdle`, and that `SavedConfigurations` is implemented |
| `catalog_concurrent` | 2 handlers, 2 names, all operations, an update that spoils the connection string, 1 crash, fairness | startup gets through whatever is in the table, but for that string |
| `catalog_selections` | 3 handlers, selections and creations | settings and active name belong together; never two marked rows |
| `proxy_feed` | 2 exchanges, 2 chunks, 1 restart; client and upstream fail | order of the feed, feed and log agree, ends are final, only two reasons for a row to stay Pending |
| `proxy_switch` | 1 exchange, 2 chunks, 2 endpoints, 2 databases, 1 restart, all faults, fairness | row, feed and client agree; sessions are disposed; no error inside a response; rows name the endpoint used; deleted rows stay deleted; an exchange ends once its client leaves, or once the upstream is through |
| `dashboard` | a past request and a new one of 1 chunk, 2 calls of the user's, 2 messages on their way, four sets of faults, fairness | the busy states are true of the calls under way; the detail is of the selection; once all is quiet, list and detail are what the log has unless an event was lost; the hub is reached; loading ends |
| `editor` | 2 functions under way at a time, four scenarios: a user who waits, with 3 names and a key; a hasty one, with 2 names; failing calls and other clients, with 2 names; all mishaps, with 1 name | one save at a time; the form shows what the buttons work on; an idle editor tells what is saved; calls are about what is on the screen, the switcher's too; keys go where they were typed; a draft outlives renderings |
| `switcher` | 3 names, 5 searches, every list | the screen shows the state; what is highlighted is an option and what Enter activates |

Why the bounds are enough.  *Catalog*: two handlers suffice for every race
between a check and its use, and the third name or handler for one that
involves a bystander; three names are a source, a target and one more that
keeps the count above one.  One crash meets every step, and a second would
start from a table the first could have left.  In all of them `Fold` is the
identity: no run has names that the service takes for one and SQLite for two.
*Exchanges*: two chunks make a
first, a last and a failure between them; one restart meets every step.  They
interact through the settings, the log's deletion and the restart only, so one
or two tell all.  *Dashboard*: one request is selected and another is not; one
was over before the page was opened, so its events never come, and one lives
through all stages.  Two calls of the user's (`MaxCalls`) with those of the
boot and the one an end event makes are enough to overtake one another; with
`MaxInbox` 2 an answer and an event, or two answers, are on their way in either
order.  `RecentLimit` and `PageLimit` 2 never cut this list: the properties
that speak of a list too short say so.  The faults come in the sets of
`FaultChoices`, one per behaviour, since all at once exceed what TLC can hold.
*Editor*: of two functions one is passed by the other, and each is followed by
a next one without limit, so the only bound is how many run at a time.  Two names
are a selection and another, and the third is what the switcher activates beside
them.  The scenarios with mishaps have no keys, and fewer names the more goes
wrong, since all at once exceed what TLC can hold: with every mishap there is one
name, which a save, a draft and an emptied list can do with.  The theorems have any
number of each.  *Switcher*: three names have a
first, a last and one between, and searches find all, two, one or none.

`MaxCrashes`, `MaxChunks`, `MaxRestarts`, `MaxCalls` and `MaxInbox` are the only
bounds on counters.  The exchange instances and the
dashboard stop when every exchange has ended and nobody clicks, so their cfgs
turn the deadlock check off; the others do not.

Symmetry is used in safety runs without temporal properties only
(`HandlerSymmetry`, `IdSymmetry`, `FlowSymmetry`): handlers, exchanges and
flows each run the same code under interchangeable names.

Fairness.  `Boot` and each handler's `Proceed` are weakly fair, for the host
runs its startup, Docker starts a process that ended anew
(`docker-compose.yml:19`), and the thread pool runs what can run; requests, aborts and
crashes are not.  An exchange's own steps (`Run`) are weakly fair; the upstream's
(`Upstream`: headers, the next chunk, the end, a failure) are not, for nothing
in the code bounds how long it reads a response.  In the dashboard
`Process \/ Receive` is weakly fair: the server answers or the browser gives the
call up, and the event loop goes on.  Nothing is assumed of users, exchanges or
the hub's connection; since that fairness lets one call be passed for ever by
others, the liveness properties there speak of calls that keep their order.

### What the code does not keep

Each of these runs has TLC find a counterexample to something the repository
says.

| Run | Said at | What happens |
|---|---|---|
| `race_delete_last` | `BridgeConfigurationService.cs:189` | deletions that both counted two leave no configuration |
| `race_secret` | `BridgeConfigurationServiceTests.cs:30` | an update without key writes back an old key |
| `forward_refused` | `README.md:3` | an unreachable upstream leaves the row Pending |
| `save_loses_edits` | `index.html:144` | Save config sends what was loaded instead of what was typed: `saveManagedConfiguration` renders the form (914) before it reads it (917, 918), which also leaves its branch that renames (921-930) dead |

More is plain from the actions and has no run of its own.  On the server:

- `race_delete_last`'s cause, a check that is not repeated at the statement,
  also defeats the guards of `BridgeConfigurationService.cs:77` (two creations
  of one name both pass, the second replaces the first) and of `:194` (the
  configuration is selected after the guard and deleted while active).
- `README.md:16` and `:66` call `PUT /api/config` in-memory, but such an update is
  saved like any other (`Save`, then `Apply`) and found by the next startup.
  Nothing checks its connection string, and where that of the active configuration
  cannot be opened, every later startup ends (`OpenLogFails`, Program.cs:36).
- Where the service takes for one name what SQLite takes for two, a rename can
  take the active name from the marked row to another, an update puts settings in
  force that are not those of the active configuration, and a deletion of what is
  not active is refused as if it were.
- An update concurrent with a selection can leave two marked rows, and two
  concurrent selections SQLite and memory with different active
  configurations.  Neither contradicts a text; `ComesUpAgain` shows that a
  restart finds a row to load in either case.
- A client that leaves ends the exchange without an end event (`README.md:21`
  has the hub tell "live request lifecycle events"), for the failure is recorded
  with the cancelled token.
- After a switch to a database that was never in force at a startup there is no
  `request_logs` table, and `/proxy` answers 502 with nothing forwarded
  (`README.md:19`).

In the dashboard:

- A click on A and then on B shows A's detail under B until B's has come, and
  for good where the answers overtake one another: no answer is compared with
  the selection (784).  Delete works on the selection.
- A list shorter than the rows moves the selection from under a detail that is
  on its way (770-776); when a request is removed, the next one is selected but
  its detail is not fetched (216).
- A started event that arrives after the request was deleted lists a request
  that does not exist, until the list is fetched again.
- Nothing is fetched after a reconnection (1312): what was missed stays wrong.
- `truncateRequests` renders everything (878), also the editor's form, over what
  is being typed into it for an existing configuration.
- A key typed for A is saved into B if B's list or form could not be fetched
  after a change, or if the user does not wait: the key is forgotten only when
  the next configuration is about to be loaded (811).  It also stays when the
  list comes back empty (795-802), and goes with what is created then.
- After a failed load Make active goes by the name that was clicked (963), the
  form and the other buttons by the configuration before it.
- What is typed after Create new is lost when a function begun earlier ends: it
  renders its configuration.
- Between 794 and 820 Enter in the switcher goes by the new list and the old
  highlight; and the highlight is repaired only when it is out of range, so it
  may stay where the active configuration was.
- `index.html:107` has a new configuration start from the active runtime
  settings, `app.js:676` says that it starts from explicit values.

## 4. The proofs

`tlapm` proves the following for every value of the constants, from the named
assumptions of `BridgeConfigurations`, `ConfigCatalog`, `ProxyExchanges`,
`Dashboard`, `ConfigEditor` and `ConfigSwitcher`, which TLC evaluates on every
run.  Only `Ids` of the dashboard and `Names` of the switcher are assumed
finite.

### The catalog (`CatalogProofs`, `CatalogRefinement`)

- `TypeCorrect`: `Spec => []TypeOK`.  Besides the types it has `BusyOK`, what a
  handler at each step must hold; without it no later step is typed.
- `OneDefault`: if no request is an update, `Spec => []AtMostOneDefault`.  The
  inductive invariant adds `SavesUnmarked`: a handler about to upsert holds an
  unmarked draft.  The hypothesis is needed: an update writes back the mark it
  read.
- `SettingsOfActive`: if requests select configurations and create them, each
  name from options it has for good (`SelectionsAndCreations(F)`), then `Spec =>
  []SettingsMatchName`, for any number of handlers, aborts and crashes.
  `SelectionInv` says that every saved row and every draft a selection holds
  has the options of its name, and that the seed's row stays.  The run
  `catalog_selections` satisfies the hypothesis.  It is needed: after an update,
  or after a second creation of the name with other options, a selection under
  way publishes options that the row no longer has.
- `ActiveStays`: if requests come one at a time (`OneAtATime`), then `Spec =>
  []ActiveIsSaved`, whatever names the service takes for one.  `ActiveInv`: only
  between the statement of a rename and `Follow` may the active name be one that
  is not saved, and then the service takes it for the old name, so it follows;
  what is about to be deleted is not taken for it.  The proof compares names by
  `SameName` only and needs no `NamesFaithful`.  It is not model-checked: where
  `Fold` is the identity `CoherentWhenIdle` says more.
- `SequentialCoherence`: if also names
  that NOCASE tells apart differ for the service (`NamesFaithful`), then
  `Spec => []CoherentWhenIdle`.  `SequentialInv` says for every step of the
  handler (`HandlerInv`) how far SQLite is ahead of memory and that the draft
  says by what; for each phase of the startup, which row is marked, and that
  memory has it before the request log is opened.
- `CatalogRefines`: under the same two hypotheses, `Spec =>
  ImplementsSavedConfigurations`.  To `SequentialInv` it adds `Snapshots`: what a
  handler holds was read from the table and is still so when it acts: its draft is
  what its update makes of a row that is saved, and what it is about to delete is
  there.
  Then one step at a time: the upsert is `Create` or `Update`
  (`SaveRefines`), the move `Rename` (`MoveRefines`), the deletion `Delete`
  (`RemoveRefines`), the activation `Select` (`ActivateRefines`), the seed's
  insertion `Start` (`BootRefines`), and every other step, the seed's marking,
  `Crash` and `Abort` included, a stutter.

### The exchanges (`ProxyProofs`)

- `ProxyTypeCorrect`: `Spec => []TypeOK` of the exchanges, including that the
  session is open wherever it is used.
- `EverySessionDisposed`: `Spec => []SessionDisposed`, from the same invariant
  (`LocalInv`): the types, and what the locals of an exchange are at each step.
- `WholeResponses`: `Spec => []CompletedIsWhole`: under every combination of
  faults, a row that says Completed belongs to a response read to its end, and
  holds all of it.  `LocalInv` has capture and response equally long at the
  steps of `Caught`; `RowsInv` adds that a row says Completed only once its
  exchange has settled.  `SettledStays` and `RowSteps` carry it: a settled
  exchange writes no more, and a row becomes Completed by `Complete` only.
- `RowsNameBackends`: `Spec => []RowNamesBackend`, and `DeletedRowsStay`:
  `Spec => DeletedStaysDeleted`.  Both rest on `NamedOK`: an exchange has no
  row before `Add`, and the row has the backend it read, which is where it
  went if it went anywhere.
- `ErrorsStandAlone`: `Spec => []ErrorStandsAlone`.  `AnswerOK`: what was
  written has started the response, and once the client is answered 502 its
  exchange is past every step that writes.
- `EventsInOrder`: `Spec => []FeedInOrder`.  `OrderOK` says at which steps the feed
  has its start and may not have its end yet.
- `DashboardFollows`: `Spec => []DashboardFollowsClient`.  `FollowOK` says for each
  step between a read and the next by how much response, capture and feed differ.
- `EndsAreFinal`: `Spec => TerminalIsFinal`.  `PendingOK`: where the sink can be
  relied on, an exchange from whose step the row may still be brought to an end
  (`Open`) has a row that says Pending, or none.  Once the row is completed only
  a client that left can send the exchange to the failure path, and there its
  cancelled token keeps the row from being written.
- `FeedAgrees`: `Spec => []FeedAgreesWithLog`, and `PendingRowsHaveReason`:
  `Spec => []PendingHasReason`.  Without switches there is one database
  (`OneStore`); the invariants say what is between an end's statement and its
  broadcast, and which steps lead to the end of an exchange with a row that says
  Pending.

### The dashboard (`DashboardProofs`, `DashboardOrderProofs`)

- `ModalOverSelection`, `SpinnerTellsTruth`, `OneOfEach`: `Spec =>
  []ModalHasSelection`, `[]SpinnerHasCall`, `[]BusyMatchesCalls`, for any number
  of requests, calls and messages and every combination of faults.  The
  inductive invariant `DashboardInv` adds to the three that a Delete button that
  is enabled has no deletion under way, and that only calls that change nothing
  are made by the boot.  The flags are held against numbers of calls, so
  `CallAdded`, `CallTaken`, `MessageAdded` and `MessageTaken` count what
  appending and removing do; each function of `app.js` has a lemma about the
  flags it leaves.

- `TypesHold` and `NoDoubles`: `Spec => []TypeOK` and `Spec => []ListedOnce`,
  from `TypeInv`, which adds to `DashboardInv` the types of calls and messages
  and that a list on its way has every request once.  This needs facts about the
  list functions for every length.  `Nth` counts a finite set of numbers off in
  order; that it finds each of them (`NthRank`, `NthOnto`) follows by counting,
  since ranks differ, and so `Without` (the script's `filter`) and `RecentRows`
  have what they should (`WithoutList`, `RecentRowsList`), without an induction
  over sequences.
- `DetailFollowsSelection`, `DetailSettles`, `ListSettles`: `Spec =>
  []DetailIsOfSelection`, `[]SettledDetail`, `[]ListFollowsLog`.  What the page
  will show is decided by what is on its way: the invariants say that the
  messages, taken in their order, bring the page to what the log has.  The
  actions come down to five kinds of steps (`StepKinds`): the server goes on
  (`ServerStep`), answers (`AnswerStep`), the user asks (`AskStep`), the page
  takes a message (`TakeStep`), an event is lost (`LoseStep`); `Taken` says of
  each handler what it can do to list, selection and detail.  Then, each from
  the ones before it:
  - `KnownInv`: what page and messages tell of was announced.
  - `RemovalInv`: an answer that takes a known request from the list tells of a
    row that has gone, and no detail behind it has that row.
  - `DetailInv`: the last detail asked for, or else the last on its way, or else
    the one shown, is of the selection or of a row that has gone.
  - `FreshInv`: for a selected request that has ended, a fetch or its end event
    is on its way, or the last detail on its way, or the one shown, is its row
    and no chunk comes behind it.
  - `ListedInv`: an announced request is listed or a message shows it.
  - `SoundInv`, `StatusInv`: no status is ahead of the row's, and one that is
    behind has an end event or a list behind it.

  The proof of the list found that `ListFollowsLog` was too strong: a started
  event cuts the list at `PageLimit` as well as the server cuts it at
  `RecentLimit`, and the instance, with both at the number of requests, could not
  show it.  The property now names both limits.

### The editor (`EditorProofs`, `CalmEditorProofs`)

The first three are for any number of functions under way at a time, begun at any
moment, and for every scenario, each kind of mishap as often as it likes; the
scenario stays what it was (`ScenarioStays`).

- `EditorTypeCorrect`: `Spec => []TypeOK`.  The invariant says of every flow
  which answers its call may have (`FlowOK`), and of the server that the
  selected configuration exists unless others race for it.  `OneSave`: `Spec => []SavingHasFlow`, by
  following the one flow whose kind is save.  `FormFollows`: `Spec =>
  []FormIsSelection`: `FormInv` says that the form lags behind the selection
  only while a function that will render it is under way.
- `DraftsAreKept`: `Spec => []DraftKept`.  `DraftInv`: a user who waits has one
  function under way, and one that renders a new configuration's form carries
  the draft there.
- `EditorSettles`, `CallsAreAboutScreen`, `KeysGoWhereTyped`: `Spec =>
  []SettledEditor`, `[]CallsMeanWhatIsShown`, `[]KeyGoesWhereTyped`, for any names,
  flows and configurations, when nothing goes wrong.  They share one
  invariant, `CalmInv`: what is on the page when nothing is under way, and what will
  be when the function under way has ended (`SettledOn`); that a change is asked for
  on such a page only, by a button for the configuration in the form and by the
  switcher for one of its options (`ChangeInv`); what is fetched after a change
  (`FetchInv`); and whose key is typed (`KeyIsForForm`).

### The switcher (`SwitcherProofs`)

- `SwitcherTypeCorrect`, `ShowsState`, `ForgetsSearch`, `HighlightsOption`,
  `EnterActivates`, `OpensHome`: the switcher's properties for any finite set of
  configurations and any searches, from one invariant (`ScreenInv`) that says
  what rendering makes sound and no handler may undo.

The type invariants of the exchanges, the editor and the switcher are proved and
so have no run.

### Left to TLC

Every safety property of the passing runs is proved, under the hypotheses named
above.  Liveness under fairness (`ComesUpAgain`, `LeavingEnds`, `Settles`, `HubIsWired`, `LoadingEnds`) is out of the prover's
reach, and that requests can be taken at all (`ENABLED`) is.  What the violation
runs refute has no theorem.  No module uses recursion.

## 5. Plan

Done: the catalog with its abstract specification, the exchanges, and the
dashboard's three parts.  Next, in this order:

1. `Bridge`: catalog and exchanges composed over one `current`, so that
   `ChangeSettings` is a selection or an update, and restarts load what the
   catalog has.  Checks that an exchange's row is found again after the
   settings come back; takes the place of `proxy_switch`.
2. `HeaderEgress` (forwarder) and `HeaderRelay` (response): which headers go
   out, precedence of default headers and the key, hop-by-hop headers; against
   a reference definition over bounded header sets.
3. `ChunkDecoding`: UTF-8 per chunk against UTF-8 of the whole body.
4. The mapping of exceptions to answers (`ToConfigurationErrorResult`) beyond
   what the editor shows of it.

## 6. Not modelled

The forwarder's headers, the decoding of chunks and the wording of errors until
the plan gets there.  Of the dashboard: the lines and the limit of the live feed,
routes, DOM focus, the confirmations and prompts (they stop the tab), dates and
badges, and the validation of the numbers in the form.  For good: the transforms
(identities), contracts, serialization contexts, dependency injection, markup
and style, routing (so that the seed's unvalidated name, which may hold a slash,
is a known hazard without a check), and
`BridgeProxyService.UpdateConfiguration`, which nothing in the host calls.
