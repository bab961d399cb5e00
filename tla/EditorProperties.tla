--------------------------- MODULE EditorProperties ---------------------------
(***************************************************************************)
(* What the configuration editor promises whoever uses it, and to what     *)
(* extent once calls fail, answers overtake one another or somebody else   *)
(* changes the configurations.                                             *)
(***************************************************************************)
EXTENDS ConfigEditor

Pages == [namedConfigs : SUBSET Names, listShown : SUBSET Names, options : SUBSET Names,
          selectedConfigName : Names \union {NoName},
          selectedConfig : Views \union {NoConfig},
          draft : Inputs, draftKey : Keys, keyFor : Inputs,
          saving : BOOLEAN, shown : Views \union {NoConfig}, input : Inputs]

\* The type invariant: the members of state the editor uses hold names,
\* descriptions of configurations or nothing, and a flow is a call.
TypeOK ==
    /\ configurations \in [Names -> Options \union {NoOptions}]
    /\ selected \in Names
    /\ scenario \in Scenarios
    /\ page \in Pages
    /\ flows \in [Flows -> Calls \union {Idle}]
    /\ unrendered \in BOOLEAN

\* However often calls fail and however hasty the user is, the save button is
\* disabled, and says so, exactly while a save is under way, and there is one at
\* most.
SavingHasFlow ==
    Cardinality({f \in Flows : Working(f) /\ flows[f].kind = "save"})
      = IF page.saving THEN 1 ELSE 0

\* When nothing is under way the form shows the configuration that Save, Rename,
\* Duplicate and Delete work on, unless one of them or an activation succeeded and the
\* fetching of its outcome failed: the functions that catch that error show it
\* and do not render the form.  A failing refresh, or load, is no excuse.
FormIsSelection == AllIdle /\ ~unrendered => page.shown = page.selectedConfig

Calm == scenario.mishaps = {}

\* A user who waits, alone on a server that answers, finds all saved configurations
\* in the list, and as the selection one of them, described as it is.
SettledEditor ==
    Calm /\ AllIdle =>
        /\ page.namedConfigs = Saved
        /\ page.listShown = Saved
        /\ IF page.selectedConfig = NoConfig THEN page.selectedConfigName = NoName
           ELSE /\ page.selectedConfigName = page.selectedConfig.name
                /\ Exists(page.selectedConfigName)
                /\ page.selectedConfig = View(page.selectedConfigName, configurations)

\* For such a user, too, a call that changes a configuration is about what is on
\* the screen: a button's about the configuration in the form, and the switcher's,
\* whatever the form shows, about one that is in the list, and exists.
CallsMeanWhatIsShown ==
    Calm => \A f \in Flows :
      Working(f) /\ flows[f].status = "asked"
        /\ flows[f].op \in {"put", "rename", "duplicate", "select", "delete"}
      => IF flows[f].kind = "switch"
           THEN flows[f].name \in page.listShown /\ Exists(flows[f].name)
           ELSE page.shown # NoConfig /\ flows[f].name = page.shown.name

\* And an API key that was typed goes to the server with the configuration it was
\* typed for, never with the next one that is opened.
KeyGoesWhereTyped ==
    Calm => \A f \in Flows :
      Working(f) /\ flows[f].status = "asked" /\ flows[f].update.apiKey # Absent =>
        CASE flows[f].op = "put" -> flows[f].name = page.keyFor
          [] flows[f].op = "create" -> page.keyFor = NoName
          [] OTHER -> TRUE

\* What is typed into the form of a new configuration is kept in the draft, and so
\* outlives the form's rendering; a user who does not wait can lose it to the end
\* of a function that was under way.
DraftKept ==
    "hasty" \notin scenario.mishaps /\ page.shown = NoConfig /\ page.selectedConfig = NoConfig
      => page.input = page.draft

\* "Save config" saves what the form shows when it is pressed: the call carries
\* the name in the form, whether it updates, renames or creates.
SaveSendsForm ==
    [][\A f \in Flows :
         ~Working(f) /\ Working(f)' /\ flows'[f].kind = "save"
         => page.input = IF flows'[f].op = "put" THEN flows'[f].name
                                                 ELSE flows'[f].to]_editorVars
=============================================================================
