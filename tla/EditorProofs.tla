----------------------------- MODULE EditorProofs -----------------------------
(***************************************************************************)
(* What holds of the configuration editor for any number of functions      *)
(* under way, any configurations and any mishaps.  Most of it is types: a  *)
(* function goes on with what its call was answered, so the invariant says *)
(* of every call what may be answered to it.                               *)
(***************************************************************************)
EXTENDS EditorProperties, FiniteSetTheorems, WellFoundedInduction, TLAPS

-----------------------------------------------------------------------------
(* The server.                                                             *)

\* The configuration that is selected exists, unless others race for it.
ServerInv ==
    /\ configurations \in [Names -> Options \union {NoOptions}]
    /\ selected \in Names
    /\ scenario \in Scenarios
    /\ "elsewhere" \in scenario.mishaps \/ Exists(selected)

\* The scenario is the one the behaviour began with.
LEMMA ScenarioStays == [Next]_editorVars => scenario' = scenario
  <1>1. ASSUME NEW f \in Flows, Run(f) PROVE scenario' = scenario
    BY <1>1 DEF Run, Serve, Refuse, Fail, Resume, Ends, ResumeEmpty, ResumeLoad, ResumeError
  <1>2. ASSUME NEW f \in Flows, Click(f) PROVE scenario' = scenario
    BY <1>2 DEF Click, ClickRefresh, Save, Activate, ClickRename, ClickDelete, ClickConfig,
       ActivateFromSwitcher, ClickDuplicate
  <1>3. Form => scenario' = scenario
    BY DEF Form, Type, TypeName, TypeKey, ClickCreate, SaveInvalid, RenderAll, OpenSwitcher,
       CloseSwitcher
  <1>4. ChangedElsewhere \/ UNCHANGED editorVars => scenario' = scenario
    BY DEF ChangedElsewhere, editorVars
  <1> QED
    BY <1>1, <1>2, <1>3, <1>4 DEF Next

LEMMA ScenarioType ==
    ASSUME ServerInv
    PROVE  /\ scenario.names \subseteq Inputs /\ TypedNames \subseteq Names
           /\ scenario.keys \subseteq Keys
  BY EditorAssumption DEF ServerInv, AllScenarios, TypedNames, Inputs

\* Options that are updated are options.
LEMMA UpdatedOptions ==
    ASSUME NEW o \in Options, NEW u \in Updates
    PROVE  ApplyUpdate(o, u) \in Options
  BY DEF Options, Updates, ApplyUpdate, KeepIfBlank

LEMMA NoUpdateType == NoUpdate \in Updates
  BY DEF NoUpdate, Updates

LEMMA CreateServer ==
    ASSUME ServerInv, scenario' = scenario, NEW n, NEW t, NEW u \in Updates, Create(n, t, u)
    PROVE  ServerInv'
  <1>1. n \in Names /\ configurations[n] = NoOptions /\ configurations[t] \in Options
    BY DEF ServerInv, Create, Vacant, Exists
  <1>2. ApplyUpdate(configurations[t], u) \in Options
    BY <1>1, UpdatedOptions
  <1> QED
    BY <1>1, <1>2, EditorAssumption DEF ServerInv, Create, Exists

LEMMA UpdateServer ==
    ASSUME ServerInv, scenario' = scenario, NEW n, NEW u \in Updates, Update(n, u)
    PROVE  ServerInv'
  <1>1. n \in Names /\ configurations[n] \in Options
    BY DEF ServerInv, Update, Exists
  <1>2. ApplyUpdate(configurations[n], u) \in Options
    BY <1>1, UpdatedOptions
  <1> QED
    BY <1>1, <1>2, EditorAssumption DEF ServerInv, Update, Exists

LEMMA RenameServer ==
    ASSUME ServerInv, scenario' = scenario, NEW n, NEW m, Rename(n, m)
    PROVE  ServerInv'
  BY DEF ServerInv, Rename, Exists, Vacant

LEMMA DeleteServer ==
    ASSUME ServerInv, scenario' = scenario, NEW n, Delete(n)
    PROVE  ServerInv'
  BY DEF ServerInv, Delete, Exists

LEMMA SelectServer ==
    ASSUME ServerInv, scenario' = scenario, NEW n, Select(n)
    PROVE  ServerInv'
  BY DEF ServerInv, Select, Exists

LEMMA CreateFromCurrentServer ==
    ASSUME ServerInv, scenario' = scenario, NEW n, NEW u \in Updates, CreateFromCurrent(n, u)
    PROVE  ServerInv'
  <1>1. n \in Names /\ configurations[n] = NoOptions
    BY DEF CreateFromCurrent, Vacant
  <1>2. PICK o \in Options :
          configurations' = [configurations EXCEPT ![n] = ApplyUpdate(o, u)]
    BY DEF CreateFromCurrent, ServerInv, Exists
  <1>3. ApplyUpdate(o, u) \in Options
    BY UpdatedOptions
  <1> QED
    BY <1>1, <1>2, <1>3, EditorAssumption DEF ServerInv, CreateFromCurrent, Exists

\* Whatever a call does on the server, what is selected stays there.
LEMMA EffectServer ==
    ASSUME ServerInv, scenario' = scenario, NEW c \in Calls, Effect(c)
    PROVE  ServerInv'
  <1>1. c.update \in Updates
    BY DEF Calls
  <1>2. UNCHANGED savedVars => ServerInv'
    BY DEF savedVars, ServerInv, Exists
  <1> QED
    BY <1>1, <1>2, NoUpdateType, CreateServer, CreateFromCurrentServer, UpdateServer,
       RenameServer, DeleteServer, SelectServer DEF Effect

-----------------------------------------------------------------------------
(* Answers, and what a function goes on with.                              *)

\* A call that was answered holds what its kind of call is answered with.
AnswerOK(c) ==
    /\ c.op \in {"rename", "put", "create", "select", "duplicate", "load"}
         => c.data \in Views
    /\ c.op = "list" => c.data \in Lists

\* A function makes the calls of its kind.
FlowOK(c) ==
    /\ c \in Calls
    /\ c.op = "rename" => c.kind \in {"save", "button"}
    /\ c.op \in {"put", "create"} => c.kind = "save"
    /\ c.op = "select" => c.kind \in {"button", "switch"}
    /\ c.op \in {"duplicate", "delete"} => c.kind = "button"
    /\ c.status = "answered" => AnswerOK(c)

LEMMA ViewType == ASSUME NEW n \in Names, NEW saved PROVE View(n, saved) \in Views
  BY DEF View, Views

LEMMA FetchType ==
    ASSUME NEW kind \in Kinds, NEW op \in {"config", "list", "load", "select", "delete"},
           NEW n \in Names \union {NoName}, op = "select" => kind \in {"button", "switch"},
           op = "delete" => kind = "button"
    PROVE  FlowOK(Fetches(kind, op, n))
  BY NoUpdateType DEF FlowOK, Fetches, Asks, Calls, Ops, Statuses

LEMMA AskType ==
    ASSUME NEW kind \in Kinds, NEW op \in Ops, NEW n \in Names \union {NoName},
           NEW m \in Names \union {NoName}, NEW u \in Updates,
           op = "rename" => kind \in {"save", "button"},
           op \in {"put", "create"} => kind = "save",
           op = "select" => kind \in {"button", "switch"},
           op \in {"duplicate", "delete"} => kind = "button"
    PROVE  FlowOK(Asks(kind, op, n, m, u))
  BY DEF FlowOK, Asks, Calls, Statuses

\* A set of numbers has a least one.
LEMMA Least ==
    ASSUME NEW S, S \subseteq Nat, S # {}
    PROVE  \E n \in S : \A m \in S : n <= m
  <1>1. PICK n \in S : \A m \in S : <<m, n>> \notin OpToRel(<, Nat)
    BY WFMin, NatLessThanWellFounded, Zenon
  <1>2. \A m \in S : ~(m < n)
    BY <1>1, Zenon DEF OpToRel
  <1> QED
    BY <1>2

\* A list that is not empty has a configuration to load, be the active one in it or not.
LEMMA PreferredType ==
    ASSUME NEW list \in Lists, list.names # {}, NEW name
    PROVE  Preferred(list, name) \in list.names /\ Preferred(list, name) \in Names
  <1>1. list.names \subseteq Names /\ list.names \subseteq Nat
    BY NamesAssumption DEF Lists
  <1>2. \E n \in list.names : \A m \in list.names : n <= m
    BY <1>1, Least
  <1> QED
    BY <1>1, <1>2 DEF Preferred

LEMMA RenderEditorType == ASSUME NEW p \in Pages PROVE RenderEditor(p) \in Pages
  <1> DEFINE input == IF p.selectedConfig = NoConfig THEN p.draft ELSE p.selectedConfig.name
  <1>1. input \in Inputs
    BY DEF Pages, Views, Inputs
  <1>2. RenderEditor(p) = [p EXCEPT !.shown = p.selectedConfig, !.input = input]
    BY DEF RenderEditor
  <1> HIDE DEF input
  <1> QED
    BY <1>1, <1>2 DEF Pages

LEMMA RenderType == ASSUME NEW p \in Pages PROVE Render(p) \in Pages
  <1> DEFINE options == IF p.options = {} THEN {} ELSE p.namedConfigs
  <1>1. options \in SUBSET Names
    BY DEF Pages
  <1>2. Render(p) = RenderEditor([p EXCEPT !.listShown = p.namedConfigs, !.options = options])
    BY DEF Render, Pages
  <1> HIDE DEF options
  <1>3. [p EXCEPT !.listShown = p.namedConfigs, !.options = options] \in Pages
    BY <1>1 DEF Pages
  <1> QED
    BY <1>2, <1>3, RenderEditorType

LEMMA NoSelectionType ==
    ASSUME NEW p \in Pages
    PROVE  /\ NoSelection(p) \in Pages
           /\ NoSelection(p).saving = p.saving /\ NoSelection(p).shown = p.shown
  BY DEF Pages, NoSelection, Inputs

LEMMA ResetDraftType ==
    ASSUME NEW p \in Pages
    PROVE  /\ ResetDraft(p) \in Pages
           /\ ResetDraft(p).saving = p.saving /\ ResetDraft(p).shown = p.shown
  BY NoSelectionType DEF Pages, ResetDraft, Keys, Inputs

\* Closing the switcher changes nothing else.
LEMMA ClosedType ==
    ASSUME NEW p \in Pages
    PROVE  LET closed == [p EXCEPT !.options = {}]
           IN /\ closed \in Pages
              /\ closed.saving = p.saving /\ closed.shown = p.shown
              /\ closed.selectedConfig = p.selectedConfig
              /\ closed.input = p.input /\ closed.draft = p.draft
  BY DEF Pages

LEMMA ChooseType ==
    ASSUME NEW p \in Pages, NEW v \in Views
    PROVE  Choose(p, v) \in Pages
  BY DEF Pages, Choose, Views

LEMMA BeginLoadType ==
    ASSUME NEW p \in Pages, NEW n \in Names
    PROVE  BeginLoad(p, n) \in Pages
  BY DEF Pages, BeginLoad, Keys, Inputs

LEMMA PayloadType == ASSUME NEW p \in Pages PROVE Payload(p) \in Updates
  <1>1. (CHOOSE t \in Backends : TRUE) \in Backends
    BY EditorAssumption DEF Options
  <1>2. p.draftKey \in ApiKeys \union {Blank}
    BY DEF Pages, Keys
  <1> DEFINE t == CHOOSE t \in Backends : TRUE
  <1> HIDE DEF t
  <1> QED
    BY <1>1, <1>2 DEF Payload, Updates, t

\* What a function does with its answer leaves the page a page ...
LEMMA AfterType ==
    ASSUME NEW p \in Pages, NEW c, FlowOK(c), c.status = "answered", c.op # "load",
           ~EmptyList(c)
    PROVE  After(p, c) \in Pages
  <1>0. AnswerOK(c) /\ c \in Calls /\ c.op \in Ops
    BY DEF FlowOK, Calls
  <1>1. CASE c.op \in {"rename", "put", "create", "select", "duplicate"}
    <2>1. Choose(p, c.data) \in Pages
      BY <1>0, <1>1, ChooseType DEF AnswerOK
    <2>2. [Choose(p, c.data) EXCEPT !.draftKey = Blank, !.keyFor = NoName] \in Pages
      BY <2>1 DEF Pages, Keys, Inputs
    <2> QED
      BY <1>1, <2>1, <2>2 DEF After, FlowOK
  <1>2. CASE c.op = "delete"
    BY <1>2, ResetDraftType DEF After
  <1>3. CASE c.op = "config"
    BY <1>3 DEF After
  <1>4. CASE c.op = "list"
    <2>1. c.data \in Lists /\ Preferred(c.data, c.name) \in Names
      BY <1>0, <1>4, PreferredType DEF AnswerOK, EmptyList
    <2>2. [p EXCEPT !.namedConfigs = c.data.names] \in Pages
      BY <2>1 DEF Pages, Lists
    <2> QED
      BY <1>4, <2>1, <2>2, BeginLoadType DEF After
  <1> QED
    BY <1>0, <1>1, <1>2, <1>3, <1>4 DEF Ops

\* ... and makes a call of its kind next.
LEMMA FollowingType ==
    ASSUME NEW p \in Pages, NEW c, FlowOK(c), c.status = "answered", c.op # "load",
           ~EmptyList(c)
    PROVE  /\ FlowOK(Following(p, c))
           /\ Following(p, c).kind = IF c.op = "select" THEN "button" ELSE c.kind
           /\ Following(p, c).status = "asked"
           /\ c.kind # "save" => Following(p, c).op \in {"config", "list", "load"}
  <1>0. AnswerOK(c) /\ c \in Calls /\ c.op \in Ops /\ c.kind \in Kinds /\ c.update \in Updates
        /\ c.name \in Names \union {NoName}
    BY DEF FlowOK, Calls
  <1>1. CASE c.op = "rename" /\ c.kind = "save"
    <2>1. c.data.name \in Names
      BY <1>0, <1>1 DEF AnswerOK, Views
    <2>2. Following(p, c) = Asks("save", "put", c.data.name, NoName, c.update)
      BY <1>1 DEF Following
    <2>3. FlowOK(Following(p, c))
      BY <1>0, <2>1, <2>2, AskType DEF Kinds, Ops
    <2> QED
      BY <1>1, <2>2, <2>3 DEF Asks
  <1>2. CASE c.op \in {"put", "create"}
    <2>1. Following(p, c) = Fetches("save", "config", NoName) /\ c.kind = "save"
      BY <1>2 DEF Following, FlowOK
    <2> QED
      BY <1>2, <2>1, FetchType DEF Kinds, Fetches, Asks
  <1>3. CASE c.op = "select"
    <2>1. Following(p, c) = Fetches("button", "config", c.data.name)
          /\ c.kind # "save" /\ c.data.name \in Names
      BY <1>0, <1>3 DEF Following, FlowOK, AnswerOK, Views
    <2> QED
      BY <1>3, <2>1, FetchType DEF Kinds, Fetches, Asks
  <1>4. CASE c.op \in {"rename", "duplicate"} /\ c.kind # "save"
    <2>1. Following(p, c) = Fetches(c.kind, "list", c.data.name) /\ c.data.name \in Names
      BY <1>0, <1>4 DEF Following, FlowOK, AnswerOK, Views
    <2> QED
      BY <1>0, <1>4, <2>1, FetchType DEF Fetches, Asks
  <1>5. CASE c.op = "delete" /\ c.kind = "button"
    <2>1. Following(p, c) = Fetches("button", "list", NoName)
      BY <1>5 DEF Following
    <2> QED
      BY <1>5, <2>1, FetchType DEF Kinds, Fetches, Asks
  <1>6. CASE c.op = "config"
    <2> DEFINE n == IF c.kind = "save" THEN p.selectedConfigName ELSE c.name
    <2>1. Following(p, c) = Fetches(c.kind, "list", n)
      BY <1>6 DEF Following
    <2>2. n \in Names \union {NoName}
      BY <1>0 DEF Pages
    <2> QED
      BY <1>0, <1>6, <2>1, <2>2, FetchType DEF Fetches, Asks
  <1>7. CASE c.op = "list"
    <2>1. Following(p, c) = Fetches(c.kind, "load", Preferred(c.data, c.name))
      BY <1>7 DEF Following
    <2>2. Preferred(c.data, c.name) \in Names
      BY <1>0, <1>7, PreferredType DEF AnswerOK, EmptyList
    <2> QED
      BY <1>0, <1>7, <2>1, <2>2, FetchType DEF Fetches, Asks
  <1> QED
    BY <1>0, <1>1, <1>2, <1>3, <1>4, <1>5, <1>6, <1>7 DEF Ops, FlowOK

-----------------------------------------------------------------------------
(* Types.                                                                  *)

FlowsOK ==
    /\ flows \in [Flows -> Calls \union {Idle}]
    /\ \A f \in Flows : Working(f) => FlowOK(flows[f])

EditorInv ==
    /\ ServerInv
    /\ page \in Pages
    /\ FlowsOK
    /\ unrendered \in BOOLEAN

\* One function goes on or ends.
LEMMA FlowsChanged ==
    ASSUME FlowsOK, NEW f \in Flows, NEW c, FlowOK(c) \/ c = Idle,
           flows' = [flows EXCEPT ![f] = c]
    PROVE  /\ FlowsOK'
           /\ flows'[f] = c
           /\ \A g \in Flows \ {f} : flows'[g] = flows[g]
           /\ FlowOK(c) => c # Idle /\ Working(f)'
  <1>1. FlowOK(c) => c \in Calls /\ c # Idle
    BY EditorAssumption DEF FlowOK
  <1>2. /\ flows'[f] = c
        /\ \A g \in Flows \ {f} : flows'[g] = flows[g]
        /\ flows' \in [Flows -> Calls \union {Idle}]
    BY <1>1 DEF FlowsOK
  <1>3. \A g \in Flows : Working(g)' => FlowOK(flows'[g])
    BY <1>2 DEF FlowsOK, Working
  <1> QED
    BY <1>1, <1>2, <1>3 DEF FlowsOK, Working

\* A call is answered.
LEMMA FlowAnswered ==
    ASSUME NEW c, FlowOK(c), NEW d \in Views \union Lists \union {NoConfig}, NEW s \in Statuses,
           s = "answered" => AnswerOK([c EXCEPT !.status = s, !.data = d])
    PROVE  /\ FlowOK([c EXCEPT !.status = s, !.data = d])
           /\ [c EXCEPT !.status = s, !.data = d].kind = c.kind
           /\ [c EXCEPT !.status = s, !.data = d].op = c.op
  <1>1. c \in Calls
    BY DEF FlowOK
  <1> DEFINE r == [c EXCEPT !.status = s, !.data = d]
  <1>2. /\ r \in Calls /\ r.kind = c.kind /\ r.op = c.op /\ r.status = s
    BY <1>1 DEF Calls
  <1> QED
    BY <1>2 DEF FlowOK

\* The user's clicks start functions with calls of their kind.
LEMMA SaveCallType ==
    ASSUME NEW p \in Pages
    PROVE  FlowOK(SaveCall(p)) /\ SaveCall(p).kind = "save"
  <1>1. /\ Payload(p) \in Updates /\ p.input \in Names \union {NoName}
        /\ p.selectedConfigName \in Names \union {NoName}
        /\ p.selectedConfig # NoConfig => p.selectedConfig.name \in Names
    BY PayloadType DEF Pages, Inputs, Views
  <1>2. CASE p.selectedConfig # NoConfig /\ p.selectedConfig.name = p.selectedConfigName
             /\ p.input # p.selectedConfig.name
    <2>1. SaveCall(p) = Asks("save", "rename", p.selectedConfig.name, p.input, Payload(p))
      BY <1>2 DEF SaveCall
    <2> QED
      BY <1>1, <1>2, <2>1, AskType DEF Kinds, Ops, Asks
  <1>3. CASE p.selectedConfig # NoConfig /\ p.selectedConfig.name = p.selectedConfigName
             /\ p.input = p.selectedConfig.name
    <2>1. SaveCall(p) = Asks("save", "put", p.selectedConfigName, NoName, Payload(p))
      BY <1>3 DEF SaveCall
    <2> QED
      BY <1>1, <2>1, AskType DEF Kinds, Ops, Asks
  <1>4. CASE ~(p.selectedConfig # NoConfig /\ p.selectedConfig.name = p.selectedConfigName)
    <2>1. SaveCall(p) = Asks("save", "create", NoName, p.input, Payload(p))
      BY <1>4 DEF SaveCall
    <2> QED
      BY <1>1, <2>1, AskType DEF Kinds, Ops, Asks
  <1> QED
    BY <1>2, <1>3, <1>4

\* What each click but Save begins, and the page it begins on.
LEMMA ClickTypes ==
    ASSUME EditorInv, NEW f \in Flows, Click(f), ~Save(f)
    PROVE  /\ \E c, p : /\ FlowOK(c) /\ c.kind # "save"
                        /\ Begin(f, c, p)
           /\ page' \in Pages
           /\ page'.shown = page.shown /\ page'.selectedConfig = page.selectedConfig
           /\ page'.saving = page.saving
           /\ UNCHANGED <<savedVars, unrendered>>
  <1>1. /\ page \in Pages /\ page.selectedConfigName \in Names \union {NoName}
        /\ page.selectedConfig # NoConfig => page.selectedConfig.name \in Names
        /\ page.input \in Names \union {NoName}
        /\ page.options \subseteq Names /\ page.namedConfigs \subseteq Names
        /\ scenario.names \subseteq Names \union {NoName}
    BY ScenarioType DEF EditorInv, Pages, Views, Inputs
  <1>2. SUFFICES \E c, p : /\ FlowOK(c) /\ c.kind # "save" /\ Begin(f, c, p)
                           /\ p \in Pages /\ p.shown = page.shown
                           /\ p.selectedConfig = page.selectedConfig
                           /\ p.saving = page.saving
                           /\ UNCHANGED <<savedVars, unrendered>>
    BY ClosedType DEF Begin
  <1>3. CASE ClickRefresh(f)
    <2>1. FlowOK(Fetches("fetch", "list", page.selectedConfigName))
      BY <1>1, FetchType DEF Kinds
    <2> QED
      BY <1>1, <1>3, <2>1 DEF ClickRefresh, Fetches, Asks
  <1>4. CASE Activate(f)
    <2>1. FlowOK(Fetches("button", "select", page.selectedConfigName))
      BY <1>1, FetchType DEF Kinds
    <2> QED
      BY <1>1, <1>4, <2>1 DEF Activate, Fetches, Asks
  <1>5. CASE ClickRename(f)
    <2>1. FlowOK(Asks("button", "rename", page.selectedConfig.name, page.input, NoUpdate))
      BY <1>1, <1>5, AskType, NoUpdateType DEF Kinds, Ops, ClickRename
    <2> QED
      BY <1>1, <1>5, <2>1 DEF ClickRename, Asks
  <1>6. CASE ClickDelete(f)
    <2>1. FlowOK(Fetches("button", "delete", page.selectedConfig.name))
      BY <1>1, <1>6, FetchType DEF Kinds, ClickDelete
    <2> QED
      BY <1>1, <1>6, <2>1 DEF ClickDelete, Fetches, Asks
  <1>7. CASE \E n \in Names : ClickConfig(f, n)
    <2>1. PICK n \in Names : ClickConfig(f, n)
      BY <1>7
    <2>2. FlowOK(Fetches("fetch", "load", n)) /\ Fetches("fetch", "load", n).kind # "save"
      BY FetchType DEF Kinds, Fetches, Asks
    <2>3. /\ BeginLoad(page, n) \in Pages
          /\ BeginLoad(page, n).shown = page.shown
          /\ BeginLoad(page, n).selectedConfig = page.selectedConfig
          /\ BeginLoad(page, n).saving = page.saving
      BY <1>1, BeginLoadType DEF BeginLoad, Pages
    <2> QED
      BY <2>1, <2>2, <2>3 DEF ClickConfig
  <1>8. CASE \E n \in scenario.names : ClickDuplicate(f, n)
    <2>1. PICK n \in scenario.names : ClickDuplicate(f, n)
      BY <1>8
    <2>2. FlowOK(Asks("button", "duplicate", page.selectedConfig.name, n, NoUpdate))
      BY <1>1, <2>1, AskType, NoUpdateType DEF Kinds, Ops, ClickDuplicate
    <2> QED
      BY <1>1, <2>1, <2>2 DEF ClickDuplicate, Asks
  <1>9. CASE \E n \in Names : ActivateFromSwitcher(f, n)
    <2>1. PICK n \in Names : ActivateFromSwitcher(f, n)
      BY <1>9
    <2>2. FlowOK(Fetches("switch", "select", n))
      BY FetchType DEF Kinds
    <2> QED
      BY <1>1, <2>1, <2>2 DEF ActivateFromSwitcher, Fetches, Asks
  <1> QED
    BY <1>3, <1>4, <1>5, <1>6, <1>7, <1>8, <1>9 DEF Click

\* What an answer, a refusal or a failure does to the flow.
LEMMA AnswerTypes ==
    ASSUME EditorInv, NEW f \in Flows, Serve(f) \/ Refuse(f) \/ Fail(f)
    PROVE  /\ ServerInv'
           /\ FlowsOK'
           /\ Working(f) /\ Working(f)' /\ flows'[f].kind = flows[f].kind
           /\ flows'[f].op = flows[f].op
           /\ \A g \in Flows \ {f} : flows'[g] = flows[g]
           /\ UNCHANGED <<page, unrendered>>
  <1> DEFINE c == flows[f]
  <1>1. Working(f) /\ FlowOK(c) /\ c \in Calls /\ c.op \in Ops /\ FlowsOK
    BY DEF EditorInv, FlowsOK, FlowOK, Calls, Serve, Refuse, Fail
  <1>2. UNCHANGED <<page, unrendered>>
    BY DEF Serve, Refuse, Fail
  <1>0. scenario' = scenario
    BY DEF Serve, Refuse, Fail
  <1>3. UNCHANGED savedVars => ServerInv'
    BY <1>0 DEF savedVars, EditorInv, ServerInv, Exists
  <1>4. CASE Serve(f)
    <2> DEFINE d == Described(c, configurations')
               r == [c EXCEPT !.status = "answered", !.data = d]
    <2>1. ServerInv'
      BY <1>0, <1>1, <1>4, EffectServer DEF Serve, EditorInv
    <2>2. flows' = [flows EXCEPT ![f] = r]
      BY <1>1, <1>4 DEF Serve, FlowsOK
    <2>3. /\ c.op \in {"rename", "put", "create", "select", "duplicate", "load"} => d \in Views
          /\ c.op = "list" => d \in Lists
          /\ d \in Views \union Lists \union {NoConfig}
      <3>1. CASE c.op \in {"rename", "create", "duplicate"}
        <4>1. c.to \in Names
          BY <1>4, <3>1 DEF Serve, Accepts, Vacant, Exists
        <4> QED
          BY <3>1, <4>1, ViewType DEF Described
      <3>2. CASE c.op \in {"put", "select", "load"}
        <4>1. c.name \in Names
          BY <1>4, <3>2 DEF Serve, Accepts, Exists
        <4> QED
          BY <3>2, <4>1, ViewType DEF Described
      <3>3. CASE c.op = "list"
        <4>1. d = [names |-> Saved, active |-> selected]
          BY <3>3 DEF Described
        <4>2. Saved \subseteq Names /\ selected \in Names
          BY DEF Saved, EditorInv, ServerInv
        <4> QED
          BY <3>3, <4>1, <4>2 DEF Lists
      <3>4. CASE c.op \in {"delete", "config"}
        BY <3>4 DEF Described
      <3> QED
        BY <1>1, <3>1, <3>2, <3>3, <3>4 DEF Ops
    <2>4. AnswerOK(r)
      BY <1>1, <2>3 DEF AnswerOK, Calls
    <2>5. FlowOK(r) /\ r.kind = c.kind /\ r.op = c.op
      BY <1>1, <2>3, <2>4, FlowAnswered DEF Statuses
    <2> QED
      BY <1>1, <1>2, <2>1, <2>2, <2>5, FlowsChanged
  <1>5. ASSUME flows' = [flows EXCEPT ![f].status = "failed"]
        PROVE  /\ FlowsOK' /\ Working(f)' /\ flows'[f].kind = c.kind
               /\ flows'[f].op = c.op
               /\ \A g \in Flows \ {f} : flows'[g] = flows[g]
    <2> DEFINE r == [c EXCEPT !.status = "failed"]
    <2>1. flows' = [flows EXCEPT ![f] = r]
      BY <1>1, <1>5 DEF FlowsOK
    <2>2. r \in Calls /\ r.kind = c.kind /\ r.op = c.op /\ r.status = "failed"
      BY <1>1, <1>5 DEF Calls, Statuses
    <2>3. FlowOK(r)
      BY <1>1, <2>2 DEF FlowOK
    <2> QED
      BY <1>1, <2>1, <2>2, <2>3, FlowsChanged
  <1>6. CASE Refuse(f)
    BY <1>1, <1>2, <1>3, <1>5, <1>6 DEF Refuse
  <1>7. CASE Fail(f)
    <2>1. ServerInv'
      BY <1>0, <1>1, <1>3, <1>7, EffectServer DEF Fail, EditorInv
    <2> QED
      BY <1>1, <1>2, <1>5, <1>7, <2>1 DEF Fail
  <1> QED
    BY <1>4, <1>6, <1>7

\* What others do.
LEMMA ElsewhereTypes ==
    ASSUME ServerInv, ChangedElsewhere
    PROVE  ServerInv'
  <1>0. scenario' = scenario /\ "elsewhere" \in scenario.mishaps
    BY DEF ChangedElsewhere
  <1>1. CASE Start
    BY <1>0, <1>1, EditorAssumption DEF Start, ServerInv, Exists
  <1>2. ASSUME NEW n \in Names, RemovedByRace(n)
        PROVE  ServerInv'
    BY <1>0, <1>2 DEF RemovedByRace, ServerInv, Exists
  <1>3. ASSUME NEW n \in Names, NEW k \in Keys,
               \/ Update(n, [NoUpdate EXCEPT !.apiKey = k])
               \/ CreateFromCurrent(n, [NoUpdate EXCEPT !.apiKey = k])
        PROVE  ServerInv'
    <2>1. [NoUpdate EXCEPT !.apiKey = k] \in Updates
      BY DEF NoUpdate, Updates, Keys
    <2> QED
      BY <1>0, <1>3, <2>1, UpdateServer, CreateFromCurrentServer
  <1> QED
    BY <1>0, <1>1, <1>2, <1>3, ScenarioType, NoUpdateType, CreateServer, RenameServer,
       SelectServer
       DEF ChangedElsewhere

\* The form is rendered with what is selected.
LEMMA RenderedForm ==
    ASSUME NEW p \in Pages
    PROVE  /\ RenderEditor(p).shown = RenderEditor(p).selectedConfig
           /\ RenderEditor(p).saving = p.saving
           /\ Render(p).shown = Render(p).selectedConfig
           /\ Render(p).saving = p.saving
  BY DEF RenderEditor, Render, Pages

\* What the user does to the form alone.
LEMMA FormTypes ==
    ASSUME EditorInv, Form
    PROVE  /\ page' \in Pages
           /\ page'.saving = page.saving
           /\ \/ page'.shown = page.shown /\ page'.selectedConfig = page.selectedConfig
                 /\ unrendered' = unrendered
              \/ page'.shown = page'.selectedConfig
           /\ unrendered' \in BOOLEAN
           /\ UNCHANGED <<savedVars, flows>>
  <1>1. page \in Pages /\ unrendered \in BOOLEAN
    BY DEF EditorInv
  <1>2. \A p \in Pages : RenderEditor(p).shown = RenderEditor(p).selectedConfig
                         /\ RenderEditor(p).saving = p.saving
    BY DEF RenderEditor, Pages
  <1>3. CASE \E n \in scenario.names : TypeName(n)
    <2> SUFFICES ASSUME NEW n \in scenario.names, TypeName(n)
                 PROVE  /\ page' \in Pages /\ page'.saving = page.saving
                        /\ page'.shown = page.shown
                        /\ page'.selectedConfig = page.selectedConfig
                        /\ UNCHANGED <<savedVars, flows, unrendered>>
      BY <1>1, <1>3
    <2> DEFINE d == IF page.selectedConfig = NoConfig THEN n ELSE page.draft
    <2>1. d \in Inputs /\ n \in Inputs
      BY <1>1, ScenarioType DEF EditorInv, Pages
    <2>2. page' = [page EXCEPT !.input = n, !.draft = d]
      BY DEF TypeName
    <2> HIDE DEF d
    <2> QED
      BY <1>1, <2>1, <2>2 DEF TypeName, Pages
  <1>4. CASE \E k \in scenario.keys : TypeKey(k)
    <2> SUFFICES ASSUME NEW k \in scenario.keys, TypeKey(k)
                 PROVE  /\ page' \in Pages /\ page'.saving = page.saving
                        /\ page'.shown = page.shown
                        /\ page'.selectedConfig = page.selectedConfig
                        /\ UNCHANGED <<savedVars, flows, unrendered>>
      BY <1>1, <1>4
    <2> DEFINE n == IF k = Blank \/ page.shown = NoConfig THEN NoName ELSE page.shown.name
    <2>1. n \in Inputs /\ k \in Keys
      BY <1>1, ScenarioType DEF EditorInv, Inputs, Pages, Views
    <2>2. page' = [page EXCEPT !.draftKey = k, !.keyFor = n]
      BY DEF TypeKey
    <2> HIDE DEF n
    <2> QED
      BY <1>1, <2>1, <2>2 DEF TypeKey, Pages
  <1>5. CASE ClickCreate
    <2> DEFINE p == RenderEditor(ResetDraft(page))
    <2>1. ResetDraft(page) \in Pages /\ ResetDraft(page).saving = page.saving
      BY <1>1, ResetDraftType
    <2>2. p \in Pages /\ p.shown = p.selectedConfig /\ p.saving = page.saving
      BY <1>2, <2>1, RenderEditorType
    <2>3. page' = [p EXCEPT !.options = {}] /\ UNCHANGED <<savedVars, flows, unrendered>>
      BY <1>5 DEF ClickCreate
    <2> HIDE DEF p
    <2> QED
      BY <1>1, <2>2, <2>3, ClosedType
  <1>6. CASE SaveInvalid \/ CloseSwitcher \/ OpenSwitcher
    BY <1>1, <1>6 DEF SaveInvalid, CloseSwitcher, OpenSwitcher, Pages
  <1>7. CASE RenderAll
    BY <1>1, <1>7, RenderType, RenderedForm DEF RenderAll
  <1> QED
    BY <1>3, <1>4, <1>5, <1>6, <1>7 DEF Form, Type

\* Save begins a save, unless one is under way.
LEMMA SaveTypes ==
    ASSUME EditorInv, NEW f \in Flows, Save(f)
    PROVE  /\ ~page.saving /\ page'.saving
           /\ page' \in Pages /\ page'.shown = page'.selectedConfig
           /\ \E c, p : FlowOK(c) /\ c.kind = "save" /\ Begin(f, c, p)
           /\ UNCHANGED <<savedVars, unrendered>>
  <1> DEFINE p == [page EXCEPT !.saving = TRUE]
             busy == RenderEditor(p)
  <1>1. p \in Pages /\ p.saving
    BY DEF EditorInv, Pages
  <1>2. /\ ~page.saving /\ Begin(f, SaveCall(busy), busy)
        /\ UNCHANGED <<savedVars, unrendered>>
    BY DEF Save, SaveEnabled
  <1> HIDE DEF p
  <1>3. busy \in Pages /\ busy.shown = busy.selectedConfig /\ busy.saving
    BY <1>1, RenderEditorType, RenderedForm
  <1> HIDE DEF busy
  <1> QED
    BY <1>2, <1>3, SaveCallType, ClosedType DEF Begin

\* A function that goes on makes another call of its kind.
LEMMA ResumeTypes ==
    ASSUME EditorInv, NEW f \in Flows, Resume(f)
    PROVE  /\ page' \in Pages /\ page'.saving = page.saving
           /\ FlowsOK'
           /\ Working(f) /\ Working(f)'
           /\ flows'[f].kind = IF flows[f].op = "select" THEN "button" ELSE flows[f].kind
           /\ flows[f].op = "select" => flows[f].kind # "save"
           /\ flows[f].kind = "save" \/ flows'[f].op \in {"config", "list", "load"}
           /\ \A g \in Flows \ {f} : flows'[g] = flows[g]
           /\ UNCHANGED <<savedVars, unrendered>>
  <1> DEFINE c == flows[f]
             d == Following(page, c)
  <1>1. /\ Working(f) /\ FlowsOK /\ page \in Pages /\ FlowOK(c) /\ c.status = "answered"
        /\ c.op # "load" /\ c.op \in Ops /\ ~EmptyList(c)
        /\ c.op = "select" => c.kind # "save"
    BY DEF Resume, EditorInv, FlowsOK, FlowOK, Calls
  <1>2. page' = After(page, c) /\ page' \in Pages
    BY <1>1, AfterType DEF Resume
  <1>3. After(page, c).saving = page.saving
    BY <1>1 DEF After, Choose, NoSelection, ResetDraft, BeginLoad, Pages, Ops, FlowOK
  <1>4. FlowOK(d) /\ d.kind = (IF c.op = "select" THEN "button" ELSE c.kind)
        /\ (c.kind # "save" => d.op \in {"config", "list", "load"})
    BY <1>1, FollowingType
  <1>5. flows' = [flows EXCEPT ![f] = d] /\ UNCHANGED <<savedVars, unrendered>>
    BY DEF Resume
  <1> HIDE DEF d
  <1> QED
    BY <1>1, <1>2, <1>3, <1>4, <1>5, FlowsChanged

\* A function that ends has rendered the form, or left it, and ends the save if it is one.
LEMMA EndTypes ==
    ASSUME EditorInv, NEW f \in Flows, Ends(f)
    PROVE  /\ page' \in Pages
           /\ FlowsOK'
           /\ Working(f) /\ flows'[f] = Idle
           /\ \A g \in Flows \ {f} : flows'[g] = flows[g]
           /\ page'.saving = (page.saving /\ flows[f].kind # "save")
           /\ \/ page'.shown = page'.selectedConfig
              \/ /\ UNCHANGED page
                 /\ flows[f].kind # "save"
                 /\ \/ flows[f].kind = "fetch" /\ UNCHANGED unrendered
                    \/ unrendered' = (unrendered \/ flows[f].op \in {"config", "list", "load"})
           /\ unrendered' \in BOOLEAN
           /\ UNCHANGED savedVars
  <1> DEFINE c == flows[f]
             s == page.saving /\ c.kind # "save"
  <1>1. /\ Working(f) /\ FlowsOK /\ page \in Pages /\ FlowOK(c) /\ c \in Calls
        /\ unrendered \in BOOLEAN /\ s \in BOOLEAN /\ page.saving \in BOOLEAN
    BY DEF Ends, ResumeEmpty, ResumeLoad, ResumeError, EditorInv, FlowsOK, FlowOK, Pages
  <1>2. flows' = [flows EXCEPT ![f] = Idle] /\ UNCHANGED savedVars
    BY DEF Ends, ResumeEmpty, ResumeLoad, ResumeError
  <1>3. FlowsOK' /\ flows'[f] = Idle /\ \A g \in Flows \ {f} : flows'[g] = flows[g]
    BY <1>1, <1>2, FlowsChanged
  <1>4. ASSUME NEW p \in Pages, p.saving = s, page' = Render(p), unrendered' = FALSE
        PROVE  /\ page' \in Pages /\ page'.shown = page'.selectedConfig
               /\ page'.saving = s /\ unrendered' \in BOOLEAN
    BY <1>4, RenderType, RenderedForm
  <1> HIDE DEF s
  <1>5. CASE ResumeLoad(f)
    <2> DEFINE p == [page EXCEPT !.selectedConfig = c.data, !.saving = s]
    <2>1. c.data \in Views
      BY <1>1, <1>5 DEF FlowOK, AnswerOK, ResumeLoad
    <2>2. page' = Render(p) /\ unrendered' = FALSE
      BY <1>5 DEF ResumeLoad, s
    <2>3. p \in Pages /\ p.saving = s
      BY <1>1, <2>1 DEF Pages
    <2> HIDE DEF p
    <2> QED
      BY <1>1, <1>2, <1>3, <1>4, <2>2, <2>3 DEF s
  <1>6. CASE ResumeEmpty(f)
    <2> DEFINE q == NoSelection(page)
               p == [q EXCEPT !.namedConfigs = {}, !.saving = s]
    <2>1. q \in Pages /\ q.saving = page.saving
      BY <1>1, NoSelectionType
    <2>2. page' = Render([q EXCEPT !.namedConfigs = {}, !.saving = @ /\ c.kind # "save"])
          /\ unrendered' = FALSE
      BY <1>6 DEF ResumeEmpty
    <2> HIDE DEF q
    <2>3. p \in Pages /\ p.saving = s /\ page' = Render(p)
      BY <1>1, <2>1, <2>2 DEF Pages, s
    <2> HIDE DEF p
    <2> QED
      BY <1>1, <1>2, <1>3, <1>4, <2>2, <2>3 DEF s
  <1>7. CASE ResumeError(f) /\ c.kind = "save"
    <2> DEFINE p == [page EXCEPT !.saving = FALSE]
    <2>1. page' = RenderEditor(p) /\ unrendered' = FALSE
      BY <1>7 DEF ResumeError
    <2>2. p \in Pages /\ p.saving = FALSE
      BY <1>1 DEF Pages
    <2> HIDE DEF p
    <2>3. page' \in Pages /\ page'.shown = page'.selectedConfig /\ page'.saving = FALSE
      BY <2>1, <2>2, RenderEditorType, RenderedForm
    <2> QED
      BY <1>1, <1>2, <1>3, <1>7, <2>1, <2>3
  <1>8. CASE ResumeError(f) /\ c.kind # "save"
    <2>1. UNCHANGED page
      BY <1>8 DEF ResumeError
    <2>2. \/ c.kind = "fetch" /\ UNCHANGED unrendered
          \/ unrendered' = (unrendered \/ c.op \in {"config", "list", "load"})
      BY <1>8 DEF ResumeError
    <2> QED
      BY <1>1, <1>2, <1>3, <1>8, <2>1, <2>2
  <1> QED
    BY <1>5, <1>6, <1>7, <1>8 DEF Ends

LEMMA EditorStep ==
    ASSUME EditorInv, [Next]_editorVars
    PROVE  EditorInv'
  <1>0. ServerInv /\ page \in Pages /\ FlowsOK /\ unrendered \in BOOLEAN
    BY DEF EditorInv
  <1>1. /\ UNCHANGED savedVars => ServerInv'
        /\ UNCHANGED flows => FlowsOK'
    BY <1>0, ScenarioStays DEF savedVars, ServerInv, Exists, FlowsOK, Working
  <1>3. ASSUME NEW f \in Flows, NEW c, NEW p, FlowOK(c), Begin(f, c, p)
        PROVE  FlowsOK'
    BY <1>0, <1>3, FlowsChanged DEF Begin
  <1>4. ASSUME NEW f \in Flows, Run(f) PROVE EditorInv'
    <2>1. CASE Serve(f) \/ Refuse(f) \/ Fail(f)
      BY <1>0, <2>1, AnswerTypes DEF EditorInv
    <2>2. CASE Resume(f)
      BY <1>0, <1>1, <2>2, ResumeTypes DEF EditorInv
    <2>3. CASE Ends(f)
      BY <1>0, <1>1, <2>3, EndTypes DEF EditorInv
    <2> QED
      BY <1>4, <2>1, <2>2, <2>3 DEF Run
  <1>5. ASSUME NEW f \in Flows, Click(f) PROVE EditorInv'
    <2>1. CASE Save(f)
      BY <1>0, <1>1, <1>3, <2>1, SaveTypes DEF EditorInv
    <2>2. CASE ~Save(f)
      BY <1>0, <1>1, <1>3, <1>5, <2>2, ClickTypes DEF EditorInv
    <2> QED
      BY <2>1, <2>2
  <1>6. CASE Form
    BY <1>1, <1>6, FormTypes DEF EditorInv
  <1>7. CASE ChangedElsewhere
    <2>1. UNCHANGED <<page, flows, unrendered>>
      BY <1>7 DEF ChangedElsewhere
    <2> QED
      BY <1>0, <1>1, <1>7, <2>1, ElsewhereTypes DEF EditorInv
  <1>8. CASE UNCHANGED editorVars
    BY <1>0, <1>1, <1>8 DEF EditorInv, editorVars
  <1> QED
    BY <1>4, <1>5, <1>6, <1>7, <1>8 DEF Next

LEMMA EditorStart == Init => EditorInv
  <1> SUFFICES ASSUME Init PROVE EditorInv
    OBVIOUS
  <1>1. ServerInv
    BY EditorAssumption DEF Init, ServerInv, Exists
  <1>2. page \in Pages
    BY DEF Init, Pages, Keys, Inputs
  <1>3. FlowOK(Fetches("fetch", "list", NoName))
    BY FetchType DEF Kinds
  <1>4. FlowsOK
    BY <1>3 DEF Init, FlowsOK, Working, FlowOK
  <1> QED
    BY <1>1, <1>2, <1>4 DEF Init, EditorInv

LEMMA EditorInvariant == Spec => []EditorInv
  BY EditorStart, EditorStep, PTL DEF Spec

\* The page never holds anything but names, descriptions and nothing, and every
\* call under way is one the API has: for any number of functions under way at a
\* time, whichever mishaps there are and however often, the last configuration's
\* removal included.
THEOREM EditorTypeCorrect == Spec => []TypeOK
  <1>1. EditorInv => TypeOK
    BY DEF EditorInv, ServerInv, FlowsOK, TypeOK
  <1> QED
    BY <1>1, EditorInvariant, PTL

-----------------------------------------------------------------------------
(* The button that saves.                                                  *)

Saves == {f \in Flows : Working(f) /\ flows[f].kind = "save"}

\* One function saves while the flag is set, and none while it is not.
SaveInv == IF page.saving THEN \E f \in Flows : Saves = {f} ELSE Saves = {}

LEMMA SaveStep ==
    ASSUME EditorInv, SaveInv, [Next]_editorVars
    PROVE  SaveInv'
  <1>0. /\ page \in Pages /\ FlowsOK /\ page.saving \in BOOLEAN
    BY DEF EditorInv, Pages
  <1>1. UNCHANGED flows => Saves' = Saves
    BY DEF Saves, Working
  <1>2. ASSUME NEW f \in Flows, Working(f), Working(f)',
               flows'[f].kind = "save" <=> flows[f].kind = "save",
               \A g \in Flows \ {f} : flows'[g] = flows[g]
        PROVE  Saves' = Saves
    BY <1>2 DEF Saves, Working
  <1>3. ASSUME NEW f \in Flows, NEW c, NEW p, FlowOK(c), Begin(f, c, p)
        PROVE  Saves' = IF c.kind = "save" THEN Saves \union {f} ELSE Saves
    <2>1. /\ ~Working(f) /\ Working(f)' /\ flows'[f] = c
          /\ \A g \in Flows \ {f} : flows'[g] = flows[g]
      BY <1>0, <1>3, FlowsChanged DEF Begin
    <2> QED
      BY <2>1 DEF Saves, Working
  <1>4. ASSUME NEW f \in Flows, Run(f) PROVE SaveInv'
    <2>1. CASE Serve(f) \/ Refuse(f) \/ Fail(f)
      <3>1. Saves' = Saves /\ UNCHANGED page
        BY <1>2, <2>1, AnswerTypes
      <3> QED
        BY <3>1 DEF SaveInv
    <2>2. CASE Resume(f)
      <3>1. Saves' = Saves /\ page'.saving = page.saving
        BY <1>2, <2>2, ResumeTypes
      <3> QED
        BY <3>1 DEF SaveInv
    <2>3. CASE Ends(f)
      <3>1. /\ Working(f) /\ flows'[f] = Idle
            /\ \A g \in Flows \ {f} : flows'[g] = flows[g]
            /\ page'.saving = (page.saving /\ flows[f].kind # "save")
        BY <2>3, EndTypes
      <3>2. Saves' = Saves \ {f} /\ (f \in Saves <=> flows[f].kind = "save")
        BY <3>1 DEF Saves, Working
      <3> QED
        BY <1>0, <3>1, <3>2 DEF SaveInv
    <2> QED
      BY <1>4, <2>1, <2>2, <2>3 DEF Run
  <1>5. ASSUME NEW f \in Flows, Click(f) PROVE SaveInv'
    <2>1. CASE Save(f)
      <3>1. Saves' = Saves \union {f} /\ ~page.saving /\ page'.saving
        BY <1>3, <2>1, SaveTypes
      <3> QED
        BY <3>1 DEF SaveInv
    <2>2. CASE ~Save(f)
      <3>1. Saves' = Saves /\ page'.saving = page.saving
        BY <1>3, <1>5, <2>2, ClickTypes
      <3> QED
        BY <3>1 DEF SaveInv
    <2> QED
      BY <2>1, <2>2
  <1>6. CASE Form
    <2>1. Saves' = Saves /\ page'.saving = page.saving
      BY <1>1, <1>6, FormTypes
    <2> QED
      BY <2>1 DEF SaveInv
  <1>7. CASE ChangedElsewhere \/ UNCHANGED editorVars
    <2>1. Saves' = Saves /\ UNCHANGED page
      BY <1>1, <1>7 DEF ChangedElsewhere, editorVars
    <2> QED
      BY <2>1 DEF SaveInv
  <1> QED
    BY <1>4, <1>5, <1>6, <1>7 DEF Next

\* The save button is disabled exactly while a save is under way, and no second one
\* can be begun: however many functions run, fail and end in whatever order, for
\* every number of Flows and in every scenario, whatever goes wrong in it and however
\* often.
THEOREM OneSave == Spec => []SavingHasFlow
  <1>1. Init => SaveInv
    BY DEF Init, SaveInv, Saves, Working, Fetches, Asks
  <1>2. SaveInv => SavingHasFlow
    <2> SUFFICES ASSUME SaveInv PROVE Cardinality(Saves) = IF page.saving THEN 1 ELSE 0
      BY DEF SavingHasFlow, Saves
    <2> QED
      BY FS_EmptySet, FS_Singleton DEF SaveInv
  <1> QED
    BY <1>1, <1>2, SaveStep, EditorInvariant, PTL DEF Spec

-----------------------------------------------------------------------------
(* The form.                                                               *)

\* A function that will render the form, or remember that it did not.
Renders(f) ==
    /\ Working(f)
    /\ \/ flows[f].kind = "save"
       \/ flows[f].kind # "fetch" /\ flows[f].op \in {"config", "list", "load"}

\* What a function of the form chooses stays unrendered until its end; a refresh, or
\* a click in the list, chooses nothing before it renders.
LEMMA FetchesLater ==
    ASSUME EditorInv, NEW f \in Flows, Resume(f), flows[f].kind = "fetch"
    PROVE  page'.shown = page.shown /\ page'.selectedConfig = page.selectedConfig
  <1> DEFINE c == flows[f]
  <1>1. /\ FlowOK(c) /\ c.op \in Ops /\ c.op # "load" /\ page \in Pages
        /\ page' = After(page, c)
    BY DEF Resume, EditorInv, FlowsOK, FlowOK, Calls
  <1>2. c.op \in {"config", "list"}
    BY <1>1 DEF FlowOK, Ops
  <1> QED
    BY <1>1, <1>2 DEF After, BeginLoad, Pages

\* While the form does not show what is selected, a function is on its way to
\* rendering it.
FormInv == page.shown # page.selectedConfig /\ ~unrendered => \E f \in Flows : Renders(f)

LEMMA FormStep ==
    ASSUME EditorInv, FormInv, [Next]_editorVars
    PROVE  FormInv'
  <1>0. /\ page \in Pages /\ FlowsOK /\ unrendered \in BOOLEAN
    BY DEF EditorInv
  <1>1. SUFFICES ASSUME page'.shown # page'.selectedConfig, ~unrendered'
                 PROVE  \E g \in Flows : Renders(g)'
    BY DEF FormInv
  <1>2. \A f, g \in Flows : flows'[g] = flows[g] /\ Renders(g) => Renders(g)'
    BY DEF Renders, Working
  <1>3. ASSUME NEW f \in Flows, NEW c, NEW p, FlowOK(c), Begin(f, c, p)
        PROVE  \A g \in Flows : Renders(g) => Renders(g)'
    <2>1. ~Working(f) /\ \A g \in Flows \ {f} : flows'[g] = flows[g]
      BY <1>0, <1>3, FlowsChanged DEF Begin
    <2> QED
      BY <1>2, <2>1 DEF Renders
  <1>4. ASSUME NEW f \in Flows, Run(f) PROVE \E g \in Flows : Renders(g)'
    <2>1. CASE Serve(f) \/ Refuse(f) \/ Fail(f)
      <3>1. /\ Working(f)' /\ flows'[f].kind = flows[f].kind /\ flows'[f].op = flows[f].op
            /\ \A g \in Flows \ {f} : flows'[g] = flows[g]
            /\ UNCHANGED <<page, unrendered>>
        BY <2>1, AnswerTypes
      <3>2. PICK g \in Flows : Renders(g)
        BY <1>1, <3>1 DEF FormInv
      <3> QED
        BY <3>1, <3>2 DEF Renders, Working
    <2>2. CASE Resume(f)
      <3>1. /\ Working(f)'
            /\ flows[f].kind # "fetch" => flows'[f].kind # "fetch"
            /\ flows[f].kind = "save" => flows'[f].kind = "save"
            /\ flows[f].kind = "save" \/ flows'[f].op \in {"config", "list", "load"}
            /\ \A g \in Flows \ {f} : flows'[g] = flows[g]
            /\ UNCHANGED unrendered
        BY <2>2, ResumeTypes
      <3>2. CASE flows[f].kind = "fetch"
        <4>1. PICK g \in Flows : Renders(g)
          BY <1>1, <2>2, <3>1, <3>2, FetchesLater DEF FormInv
        <4> QED
          BY <1>2, <3>1, <3>2, <4>1 DEF Renders
      <3>3. CASE flows[f].kind # "fetch"
        BY <3>1, <3>3 DEF Renders
      <3> QED
        BY <3>2, <3>3
    <2>3. CASE Ends(f)
      <3>1. /\ \A g \in Flows \ {f} : flows'[g] = flows[g]
            /\ UNCHANGED page
            /\ flows[f].kind # "save"
            /\ \/ flows[f].kind = "fetch" /\ UNCHANGED unrendered
               \/ unrendered' = (unrendered \/ flows[f].op \in {"config", "list", "load"})
        BY <1>1, <2>3, EndTypes
      <3>2. ~unrendered /\ ~Renders(f)
        <4>1. CASE flows[f].kind = "fetch" /\ UNCHANGED unrendered
          BY <1>1, <4>1 DEF Renders
        <4>2. CASE unrendered' = (unrendered \/ flows[f].op \in {"config", "list", "load"})
          <5>1. ~unrendered /\ flows[f].op \notin {"config", "list", "load"}
            BY <1>0, <1>1, <4>2
          <5> QED
            BY <3>1, <5>1 DEF Renders
        <4> QED
          BY <3>1, <4>1, <4>2
      <3>3. PICK g \in Flows : Renders(g)
        BY <1>1, <3>1, <3>2 DEF FormInv
      <3> QED
        BY <1>2, <3>1, <3>2, <3>3
    <2> QED
      BY <1>4, <2>1, <2>2, <2>3 DEF Run
  <1>5. ASSUME NEW f \in Flows, Click(f) PROVE \E g \in Flows : Renders(g)'
    <2>1. ~Save(f)
      BY <1>1, SaveTypes
    <2>2. /\ \E c, p : FlowOK(c) /\ Begin(f, c, p)
          /\ page'.shown = page.shown /\ page'.selectedConfig = page.selectedConfig
          /\ unrendered' = unrendered
      BY <1>5, <2>1, ClickTypes
    <2> QED
      BY <1>1, <1>3, <2>2 DEF FormInv
  <1>6. CASE Form
    <2>1. /\ page'.shown = page.shown /\ page'.selectedConfig = page.selectedConfig
          /\ unrendered' = unrendered /\ UNCHANGED flows
      BY <1>1, <1>6, FormTypes
    <2> QED
      BY <1>1, <1>2, <2>1 DEF FormInv
  <1>7. CASE ChangedElsewhere \/ UNCHANGED editorVars
    <2>1. UNCHANGED <<page, flows, unrendered>>
      BY <1>7 DEF ChangedElsewhere, editorVars
    <2> QED
      BY <1>1, <1>2, <2>1 DEF FormInv
  <1> QED
    BY <1>4, <1>5, <1>6, <1>7 DEF Next

\* Once nothing is under way the form shows the configuration the buttons work on,
\* unless a change succeeded and what should have been rendered could not be fetched.
THEOREM FormFollows == Spec => []FormIsSelection
  <1>1. Init => FormInv
    BY DEF Init, FormInv
  <1>2. FormInv => FormIsSelection
    BY DEF FormInv, FormIsSelection, AllIdle, Renders
  <1> QED
    BY <1>1, <1>2, FormStep, EditorInvariant, PTL DEF Spec

=============================================================================
