----------------------------- MODULE ConfigEditor -----------------------------
(***************************************************************************)
(* The configuration editor of the dashboard (wwwroot/app.js): the list of *)
(* saved configurations, the form, the operations behind its buttons, and  *)
(* the activation that the switcher in the header starts for any saved     *)
(* configuration.  The server is the atomic catalog of SavedConfigurations *)
(* until other clients race there.                                         *)
(*                                                                         *)
(* Every operation is an async function that awaits API calls one after    *)
(* the other.  A flow is one such function under way: the call it awaits,  *)
(* what the server has answered, and what it does next.  Between the       *)
(* awaits other flows, the user and other clients of the API go on.        *)
(***************************************************************************)
EXTENDS SavedConfigurations, FiniteSets

CONSTANTS
    Flows,      \* bound: async functions under way at a time
    Scenarios,  \* the behaviours looked at: each has one of these, see AllScenarios
    NoConfig,   \* null
    Idle        \* a flow that is not under way

VARIABLES
    scenario,   \* what may go wrong and what is typed in this behaviour
    page,       \* the members of state the editor uses, and its form
    flows,      \* flows[f]: the function that is under way as f
    unrendered  \* history: a function ended after a change, without rendering it

editorVars == <<savedVars, scenario, page, flows, unrendered>>

\* What may go wrong, and then as often as it likes.
AllMishaps == {"fail",      \* a call fails, before or after it took effect
               "elsewhere", \* another client of the API changes a configuration
               "hasty"}     \* the user does something while functions are under way

Keys == ApiKeys \union {Blank}

\* The answer that describes a configuration: the API key stays on the server.
Views == [name : Names, hasApiKey : BOOLEAN]

\* What stands in the input for the name, NoName for what is not a name.
Inputs == Names \union {NoName}

\* names: those that are typed, here or by other clients, NoName for a text that is
\* none.  keys: the API keys that are typed.
AllScenarios == [mishaps : SUBSET AllMishaps, names : SUBSET Inputs, keys : SUBSET Keys]

Kinds == {"save",    \* saveManagedConfiguration
          "button",  \* Make active, Rename, Duplicate, Delete: they catch errors
          "switch",  \* the same for what is chosen in the switcher
          "fetch"}   \* Refresh and a click in the list: they do not
Ops == {"rename", "put", "create", "select", "duplicate", "delete", "config", "list",
        "load"}
Statuses == {"asked", "answered", "failed"}
Lists == [names : SUBSET Names, active : Names]
Calls == [kind : Kinds, op : Ops, name : Names \union {NoName},
          to : Names \union {NoName}, update : Updates, status : Statuses,
          data : Views \union Lists \union {NoConfig}]

NoUpdate == [backend |-> Absent, apiKey |-> Absent, store |-> Absent]

ASSUME EditorAssumption ==
    /\ InitialName \in Names
    /\ InitialOptions \in Options
    /\ NoOptions \notin Options
    /\ Scenarios \subseteq AllScenarios
    /\ NoConfig \notin Views \union Lists
    /\ Idle \notin Calls

View(n, saved) == [name |-> n, hasApiKey |-> saved[n].apiKey # Blank]

Saved == {n \in Names : Exists(n)}

-----------------------------------------------------------------------------
(* The page.                                                               *)

\* renderManageEditor: the inputs are overwritten with the configuration, or
\* with the draft when there is none.  The input for the name stands for all.
RenderEditor(p) ==
    [p EXCEPT !.shown = p.selectedConfig,
              !.input = IF p.selectedConfig = NoConfig THEN p.draft
                                                       ELSE p.selectedConfig.name]

\* render, of which the list, the options of the switcher and the form matter
\* here.  There are options while it is open, and an empty list closes it.
Render(p) ==
    RenderEditor([p EXCEPT !.listShown = p.namedConfigs,
                           !.options = IF @ = {} THEN {} ELSE p.namedConfigs])

NoSelection(p) ==
    [p EXCEPT !.selectedConfig = NoConfig, !.selectedConfigName = NoName,
              !.draft = NoName]

ResetDraft(p) == [NoSelection(p) EXCEPT !.draftKey = Blank, !.keyFor = NoName]

\* What the answer to a change puts in place of the selection, unrendered.
Choose(p, view) ==
    [p EXCEPT !.selectedConfig = view, !.selectedConfigName = view.name]

\* Mutant: the typed API key stays.
BeginLoadKeepingKey(p, n) ==
    [p EXCEPT !.selectedConfigName = n]

\* loadNamedConfig up to its await.
BeginLoad(p, n) ==
    [p EXCEPT !.selectedConfigName = n, !.draftKey = Blank, !.keyFor = NoName]

\* collectManagePayload: the name is sent as the backend's name too, but texts
\* are not told apart here; an empty API key is not sent.
Payload(p) ==
    [backend |-> IF p.input = NoName THEN Blank ELSE CHOOSE t \in Backends : TRUE,
     apiKey |-> IF p.draftKey = Blank THEN Absent ELSE p.draftKey,
     store |-> Absent]

\* refreshNamedConfigs: what to load of a list that is not empty.
Preferred(list, name) ==
    IF name \in list.names THEN name
    ELSE IF list.active \in list.names THEN list.active
    ELSE CHOOSE n \in list.names : \A m \in list.names : n <= m

-----------------------------------------------------------------------------
(* Flows.                                                                  *)

Asks(kind, op, name, to, update) ==
    [kind |-> kind, op |-> op, name |-> name, to |-> to, update |-> update,
     status |-> "asked", data |-> NoConfig]

Fetches(kind, op, name) == Asks(kind, op, name, NoName, NoUpdate)

TypedNames == scenario.names \ {NoName}
KeysAround == scenario.keys \union {InitialOptions.apiKey}

Working(f) == flows[f] # Idle
AllIdle == \A f \in Flows : ~Working(f)

\* A user who is not hasty waits for the functions under way.
MayAct == AllIdle \/ "hasty" \in scenario.mishaps

\* The user starts a function in a free slot, and closes the switcher: a click
\* beside it does, and so does the choice of one of its options.
Begin(f, call, p) ==
    /\ ~Working(f)
    /\ MayAct
    /\ flows' = [flows EXCEPT ![f] = call]
    /\ page' = [p EXCEPT !.options = {}]

Init ==
    /\ configurations = [n \in Names |-> IF n = InitialName THEN InitialOptions
                                                           ELSE NoOptions]
    /\ selected = InitialName
    /\ scenario \in Scenarios
    /\ page = [namedConfigs |-> {}, listShown |-> {}, options |-> {},
               selectedConfigName |-> NoName, selectedConfig |-> NoConfig,
               draft |-> NoName, draftKey |-> Blank, keyFor |-> NoName,
               saving |-> FALSE, shown |-> NoConfig, input |-> NoName]
    /\ \E f \in Flows :
         flows = [g \in Flows |-> IF g = f THEN Fetches("fetch", "list", NoName)
                                           ELSE Idle]
    /\ unrendered = FALSE

-----------------------------------------------------------------------------
(* What the user does.                                                     *)

\* The list shows buttons for the names it was last rendered with.
ClickConfig(f, n) ==
    /\ n \in page.listShown
    /\ Begin(f, Fetches("fetch", "load", n), BeginLoad(page, n))
    /\ UNCHANGED <<savedVars, scenario, unrendered>>

ClickRefresh(f) ==
    /\ Begin(f, Fetches("fetch", "list", page.selectedConfigName), page)
    /\ UNCHANGED <<savedVars, scenario, unrendered>>

\* beginCreateConfiguration
ClickCreate ==
    /\ MayAct
    /\ page' = [RenderEditor(ResetDraft(page)) EXCEPT !.options = {}]
    /\ UNCHANGED <<savedVars, scenario, flows, unrendered>>

\* Mutant: the draft is not kept.
TypeNameUnkept(n) ==
    /\ MayAct
    /\ page' = [page EXCEPT !.input = n]
    /\ UNCHANGED <<savedVars, scenario, flows, unrendered>>

\* updateManageDraft: the draft follows the input only while there is no
\* selected configuration.
TypeName(n) ==
    /\ MayAct
    /\ page' = [page EXCEPT !.input = n,
                            !.draft = IF page.selectedConfig = NoConfig THEN n ELSE @]
    /\ UNCHANGED <<savedVars, scenario, flows, unrendered>>

\* keyFor, a history, is whose key it is to be: that of the configuration in the
\* form, or of the one that is being made up.
TypeKey(k) ==
    /\ MayAct
    /\ page' = [page EXCEPT !.draftKey = k,
                            !.keyFor = IF k = Blank \/ page.shown = NoConfig
                                         THEN NoName ELSE page.shown.name]
    /\ UNCHANGED <<savedVars, scenario, flows, unrendered>>

\* The button is disabled while a save is under way.
SaveEnabled == ~page.saving

\* validateManageConfiguration: the name is missing or no name.
SaveInvalid ==
    /\ MayAct
    /\ SaveEnabled
    /\ page.input = NoName
    /\ page' = [page EXCEPT !.options = {}]
    /\ UNCHANGED <<savedVars, scenario, flows, unrendered>>

\* What the save asks first: to rename or to update the selected configuration
\* if it is the one that was loaded, and to create one otherwise.
SaveCall(p) ==
    IF p.selectedConfig # NoConfig /\ p.selectedConfig.name = p.selectedConfigName
      THEN IF p.input # p.selectedConfig.name
             THEN Asks("save", "rename", p.selectedConfig.name, p.input, Payload(p))
             ELSE Asks("save", "put", p.selectedConfigName, NoName, Payload(p))
      ELSE Asks("save", "create", NoName, p.input, Payload(p))

\* saveManagedConfiguration renders the form, to show that it is saving, before
\* it collects what is in it.
Save(f) ==
    LET busy == RenderEditor([page EXCEPT !.saving = TRUE]) IN
    /\ SaveEnabled
    /\ page.input # NoName
    /\ Begin(f, SaveCall(busy), busy)
    /\ UNCHANGED <<savedVars, scenario, unrendered>>

\* The other buttons are enabled while the form shows a configuration.
ButtonsEnabled == page.shown # NoConfig

\* Make active goes by the name that was chosen last ...
Activate(f) ==
    /\ ButtonsEnabled
    /\ page.selectedConfigName # NoName
    /\ Begin(f, Fetches("button", "select", page.selectedConfigName), page)
    /\ UNCHANGED <<savedVars, scenario, unrendered>>

\* ... the others by the configuration that was loaded last.
ClickRename(f) ==
    /\ ButtonsEnabled
    /\ page.selectedConfig # NoConfig
    /\ Begin(f, Asks("button", "rename", page.selectedConfig.name, page.input,
                     NoUpdate), page)
    /\ UNCHANGED <<savedVars, scenario, unrendered>>

ClickDuplicate(f, to) ==
    /\ ButtonsEnabled
    /\ page.selectedConfig # NoConfig
    /\ Begin(f, Asks("button", "duplicate", page.selectedConfig.name, to, NoUpdate),
             page)
    /\ UNCHANGED <<savedVars, scenario, unrendered>>

ClickDelete(f) ==
    /\ ButtonsEnabled
    /\ page.selectedConfig # NoConfig
    /\ Begin(f, Fetches("button", "delete", page.selectedConfig.name), page)
    /\ UNCHANGED <<savedVars, scenario, unrendered>>

\* The switcher in the header, of which ConfigSwitcher has the rest, lists all
\* configurations when it is opened, and again at a search or an arrow key.
OpenSwitcher ==
    /\ MayAct
    /\ page' = [page EXCEPT !.options = page.namedConfigs]
    /\ UNCHANGED <<savedVars, scenario, flows, unrendered>>

CloseSwitcher ==
    /\ MayAct
    /\ page' = [page EXCEPT !.options = {}]
    /\ UNCHANGED <<savedVars, scenario, flows, unrendered>>

\* activateConfigFromSwitcher, for an option that is clicked or for the one that
\* Enter finds in the list, whatever the form shows.
ActivateFromSwitcher(f, n) ==
    /\ page.options # {}
    /\ n \in page.options \union page.namedConfigs
    /\ Begin(f, Fetches("switch", "select", n), page)
    /\ UNCHANGED <<savedVars, scenario, unrendered>>

\* truncateRequests, at its end, renders everything.
RenderAll ==
    /\ MayAct
    /\ page' = Render(page)
    /\ unrendered' = FALSE
    /\ UNCHANGED <<savedVars, scenario, flows>>

-----------------------------------------------------------------------------
(* The server.                                                             *)

Accepts(c) ==
    CASE c.op = "rename" -> Exists(c.name) /\ (c.to = c.name \/ Vacant(c.to))
      [] c.op = "create" -> Vacant(c.to)
      [] c.op = "duplicate" -> Exists(c.name) /\ Vacant(c.to)
      [] c.op = "delete" -> Exists(c.name) /\ Saved # {c.name} /\ c.name # selected
      [] c.op \in {"put", "select", "load"} -> Exists(c.name)
      [] OTHER -> TRUE

\* A creation takes what it leaves open from the settings in force.  They are those
\* of the selected configuration, as long as nobody else is at work.
CreateFromCurrent(n, update) ==
    /\ Vacant(n)
    /\ \E o \in IF "elsewhere" \in scenario.mishaps
                  THEN {p \in Options : p.apiKey \in KeysAround}
                  ELSE {configurations[selected]} :
         configurations' = [configurations EXCEPT ![n] = ApplyUpdate(o, update)]
    /\ UNCHANGED selected

Effect(c) ==
    CASE c.op = "rename" /\ c.to # c.name -> Rename(c.name, c.to)
      [] c.op = "create" -> CreateFromCurrent(c.to, c.update)
      [] c.op = "duplicate" -> Create(c.to, c.name, NoUpdate)
      [] c.op = "put" -> Update(c.name, c.update)
      [] c.op = "delete" -> Delete(c.name)
      [] c.op = "select" -> Select(c.name)
      [] OTHER -> UNCHANGED savedVars

\* The answer, given the configurations as the call leaves them.
Described(c, saved) ==
    CASE c.op \in {"rename", "create", "duplicate"} -> View(c.to, saved)
      [] c.op \in {"put", "select", "load"} -> View(c.name, saved)
      [] c.op = "list" -> [names |-> Saved, active |-> selected]
      [] OTHER -> NoConfig

Serve(f) ==
    /\ Working(f)
    /\ flows[f].status = "asked"
    /\ Accepts(flows[f])
    /\ Effect(flows[f])
    /\ flows' = [flows EXCEPT ![f].status = "answered",
                              ![f].data = Described(flows[f], configurations')]
    /\ UNCHANGED <<scenario, page, unrendered>>

\* ToConfigurationErrorResult: the answer is an error.
Refuse(f) ==
    /\ Working(f)
    /\ flows[f].status = "asked"
    /\ ~Accepts(flows[f])
    /\ flows' = [flows EXCEPT ![f].status = "failed"]
    /\ UNCHANGED <<savedVars, scenario, page, unrendered>>

\* The call is lost before or after it took effect.
Fail(f) ==
    /\ "fail" \in scenario.mishaps
    /\ Working(f)
    /\ flows[f].status = "asked"
    /\ UNCHANGED savedVars \/ (Accepts(flows[f]) /\ Effect(flows[f]))
    /\ flows' = [flows EXCEPT ![f].status = "failed"]
    /\ UNCHANGED <<scenario, page, unrendered>>

\* Requests that race delete what either alone would have kept: the selected
\* configuration, and the last one (ConfigCatalog!AtLeastOneRemains).
RemovedByRace(n) ==
    /\ Exists(n)
    /\ configurations' = [configurations EXCEPT ![n] = NoOptions]
    /\ UNCHANGED selected

\* Another client changes the configurations, or the server starts anew without any.
ChangedElsewhere ==
    /\ "elsewhere" \in scenario.mishaps
    /\ \/ Start
       \/ \E n \in Names :
            \/ \E m \in TypedNames : Create(m, n, NoUpdate) \/ Rename(n, m)
            \/ \E k \in scenario.keys :
                 LET u == [NoUpdate EXCEPT !.apiKey = k]
                 IN Update(n, u) \/ (n \in TypedNames /\ CreateFromCurrent(n, u))
            \/ RemovedByRace(n)
            \/ Select(n)
    /\ UNCHANGED <<scenario, page, flows, unrendered>>

-----------------------------------------------------------------------------
(* A function goes on with its answer.                                     *)

\* What it does to the page before its next await.
After(p, c) ==
    CASE c.op = "rename" /\ c.kind = "save" -> Choose(p, c.data)
      [] c.op \in {"put", "create"} ->
           [Choose(p, c.data) EXCEPT !.draftKey = Blank, !.keyFor = NoName]
      [] c.op \in {"rename", "select", "duplicate"} /\ c.kind # "save" ->
           Choose(p, c.data)
      [] c.op = "delete" -> ResetDraft(p)
      [] c.op = "config" -> p
      [] c.op = "list" ->
           BeginLoad([p EXCEPT !.namedConfigs = c.data.names], Preferred(c.data, c.name))

\* Mutant: a changed configuration is loaded, the list is not refreshed.
FollowingByLoad(p, c) ==
    CASE c.op = "rename" /\ c.kind = "save" ->
           Asks("save", "put", c.data.name, NoName, c.update)
      [] c.op \in {"put", "create"} -> Fetches("save", "config", NoName)
      [] c.op = "select" -> Fetches("button", "config", c.data.name)
      [] c.op \in {"rename", "duplicate"} /\ c.kind # "save" ->
           Fetches(c.kind, "load", c.data.name)
      [] c.op = "delete" -> Fetches("button", "list", NoName)
      [] c.op = "config" -> Fetches(c.kind, "load", p.selectedConfigName)
      [] c.op = "list" -> Fetches(c.kind, "load", Preferred(c.data, c.name))

\* Its next call.
Following(p, c) ==
    CASE c.op = "rename" /\ c.kind = "save" ->
           Asks("save", "put", c.data.name, NoName, c.update)
      [] c.op \in {"put", "create"} -> Fetches("save", "config", NoName)
      [] c.op = "select" -> Fetches("button", "config", c.data.name)
      [] c.op \in {"rename", "duplicate"} /\ c.kind # "save" ->
           Fetches(c.kind, "list", c.data.name)
      [] c.op = "delete" -> Fetches("button", "list", NoName)
      [] c.op = "config" ->
           Fetches(c.kind, "list", IF c.kind = "save" THEN p.selectedConfigName ELSE c.name)
      [] c.op = "list" -> Fetches(c.kind, "load", Preferred(c.data, c.name))

EmptyList(c) == c.op = "list" /\ c.data.names = {}

Resume(f) ==
    /\ Working(f)
    /\ flows[f].status = "answered"
    /\ flows[f].op # "load"
    /\ ~EmptyList(flows[f])
    /\ page' = After(page, flows[f])
    /\ flows' = [flows EXCEPT ![f] = Following(page, flows[f])]
    /\ UNCHANGED <<savedVars, scenario, unrendered>>

\* refreshNamedConfigs finds no configuration: it renders the form of a new one,
\* and the function ends.  A typed key stays.
ResumeEmpty(f) ==
    /\ Working(f)
    /\ flows[f].status = "answered"
    /\ EmptyList(flows[f])
    /\ page' = Render([NoSelection(page) EXCEPT !.namedConfigs = {},
                                                !.saving = @ /\ flows[f].kind # "save"])
    /\ flows' = [flows EXCEPT ![f] = Idle]
    /\ unrendered' = FALSE
    /\ UNCHANGED <<savedVars, scenario>>

\* Mutant: nothing is rendered.
ResumeLoadUnrendered(f) ==
    /\ Working(f)
    /\ flows[f].status = "answered"
    /\ flows[f].op = "load"
    /\ page' = [page EXCEPT !.selectedConfig = flows[f].data,
                            !.saving = @ /\ flows[f].kind # "save"]
    /\ flows' = [flows EXCEPT ![f] = Idle]
    /\ unrendered' = FALSE
    /\ UNCHANGED <<savedVars, scenario>>

\* The last answer ends every other function: loadNamedConfig renders everything.
ResumeLoad(f) ==
    /\ Working(f)
    /\ flows[f].status = "answered"
    /\ flows[f].op = "load"
    /\ page' = Render([page EXCEPT !.selectedConfig = flows[f].data,
                                   !.saving = @ /\ flows[f].kind # "save"])
    /\ flows' = [flows EXCEPT ![f] = Idle]
    /\ unrendered' = FALSE
    /\ UNCHANGED <<savedVars, scenario>>

\* Mutant: a save that fails leaves the flag set.
ResumeErrorSaving(f) ==
    /\ Working(f)
    /\ flows[f].status = "failed"
    /\ flows' = [flows EXCEPT ![f] = Idle]
    /\ UNCHANGED <<savedVars, scenario, page, unrendered>>

\* An error ends it too, and only the save then renders the form.  What the page
\* says of the error is left out.
ResumeError(f) ==
    /\ Working(f)
    /\ flows[f].status = "failed"
    /\ \/ /\ flows[f].kind = "save"
          /\ page' = RenderEditor([page EXCEPT !.saving = FALSE])
          /\ unrendered' = FALSE
       \/ /\ flows[f].kind = "fetch"
          /\ UNCHANGED <<page, unrendered>>
       \/ /\ flows[f].kind \in {"button", "switch"}
          /\ unrendered' = (unrendered \/ flows[f].op \in {"config", "list", "load"})
          /\ UNCHANGED page
    /\ flows' = [flows EXCEPT ![f] = Idle]
    /\ UNCHANGED <<savedVars, scenario>>

Ends(f) == ResumeEmpty(f) \/ ResumeLoad(f) \/ ResumeError(f)

Run(f) == Serve(f) \/ Refuse(f) \/ Fail(f) \/ Resume(f) \/ Ends(f)

Click(f) ==
    \/ ClickRefresh(f) \/ Save(f) \/ Activate(f) \/ ClickRename(f) \/ ClickDelete(f)
    \/ \E n \in Names : ClickConfig(f, n) \/ ActivateFromSwitcher(f, n)
    \/ \E n \in scenario.names : ClickDuplicate(f, n)

Type ==
    \/ \E n \in scenario.names : TypeName(n)
    \/ \E k \in scenario.keys : TypeKey(k)

\* What happens to the page without a call.
Form == Type \/ ClickCreate \/ SaveInvalid \/ RenderAll \/ OpenSwitcher \/ CloseSwitcher

Next ==
    \/ \E f \in Flows : Run(f) \/ Click(f)
    \/ Form
    \/ ChangedElsewhere

Spec == Init /\ [][Next]_editorVars
=============================================================================
