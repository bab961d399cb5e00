--------------------------- MODULE CalmEditorProofs ---------------------------
(***************************************************************************)
(* What the configuration editor promises a user who waits, alone on a     *)
(* server that answers: for any number of configurations, and whatever the *)
(* user does next.  Refusals are answers, and happen here too.             *)
(***************************************************************************)
EXTENDS EditorProofs

\* The user waits for what is under way.
Patient == "hasty" \notin scenario.mishaps
OneFlow == \A f, g \in Flows : Working(f) /\ Working(g) => f = g

\* The calls that change configurations, or the one that is selected.
Changes == {"put", "create", "select", "rename", "duplicate", "delete"}

\* A typed API key is for what the form shows.
KeyIsForForm(p) ==
    p.draftKey # Blank => p.keyFor = IF p.shown = NoConfig THEN NoName ELSE p.shown.name

\* Nothing is missing on the page, and nothing on it is out of date.
SettledOn(p) ==
    /\ p.namedConfigs = Saved
    /\ p.listShown = Saved
    /\ p.options \subseteq Saved
    /\ p.shown = p.selectedConfig
    /\ IF p.selectedConfig = NoConfig THEN p.selectedConfigName = NoName
       ELSE /\ p.selectedConfigName = p.selectedConfig.name
            /\ Exists(p.selectedConfigName)
            /\ p.selectedConfig = View(p.selectedConfigName, configurations)
    /\ KeyIsForForm(p)

SettledPage == SettledOn(page)

\* A change is asked for on a settled page, which stays as it is until the answer.
ChangeInv(c) ==
    c.op \in Changes /\ c.status # "answered" =>
        /\ SettledPage
        /\ IF c.op = "create" THEN page.shown = NoConfig
           ELSE IF c.kind = "switch" THEN c.name \in Saved
           ELSE page.shown # NoConfig /\ c.name = page.shown.name
        /\ c.update.apiKey # Absent => page.draftKey # Blank

\* After a change the page is behind the server, until the list and the
\* configuration in it that is to be shown have been fetched.
FetchInv(c) ==
    /\ c.op = "rename" => c.kind = "button"
    /\ c.op \notin Changes => c.status \in {"asked", "answered"}
    /\ c.op = "list" /\ c.status = "answered" =>
         c.data = [names |-> Saved, active |-> selected]
    /\ c.op = "load" =>
         /\ page.namedConfigs = Saved
         /\ page.selectedConfigName = c.name
         /\ Exists(c.name)
         /\ page.draftKey = Blank
         /\ c.status = "answered" => c.data = View(c.name, configurations)

\* The draft is what stands in the form of a new configuration, and only a
\* configuration that is shown can be deleted.
DraftInv ==
    Patient =>
        /\ OneFlow
        /\ page.shown = NoConfig /\ page.selectedConfig = NoConfig => page.input = page.draft
        /\ \A f \in Flows : Working(f) /\ flows[f].op = "delete" => page.shown # NoConfig

-----------------------------------------------------------------------------
(* Waiting.                                                                *)

\* A user who waits and acts now has nothing to wait for.
LEMMA ActsWhenIdle == ASSUME MayAct, Patient PROVE AllIdle
  BY DEF MayAct, Patient

LEMMA CalmIsPatient == Calm => Patient
  BY DEF Calm, Patient

\* A function that goes on leaves the others alone.
LEMMA RunsAlone ==
    ASSUME EditorInv, NEW f \in Flows, Run(f)
    PROVE  Working(f) /\ \A g \in Flows \ {f} : flows'[g] = flows[g]
  <1>1. CASE Serve(f) \/ Refuse(f) \/ Fail(f)
    BY <1>1, AnswerTypes
  <1>2. CASE Resume(f)
    BY <1>2, ResumeTypes
  <1>3. CASE Ends(f)
    BY <1>3, EndTypes
  <1> QED
    BY <1>1, <1>2, <1>3 DEF Run

\* A function a patient user starts is the only one.
LEMMA BeginsAlone ==
    ASSUME EditorInv, NEW f \in Flows, NEW c, NEW p, FlowOK(c), Begin(f, c, p), Patient
    PROVE  /\ AllIdle
           /\ Working(f)' /\ flows'[f] = c
           /\ \A g \in Flows \ {f} : ~Working(g)'
  <1>1. AllIdle
    BY ActsWhenIdle DEF Begin
  <1>2. Working(f)' /\ flows'[f] = c /\ \A g \in Flows \ {f} : flows'[g] = flows[g]
    BY FlowsChanged DEF Begin, EditorInv
  <1> QED
    BY <1>1, <1>2 DEF AllIdle, Working

LEMMA OneFlowStep ==
    ASSUME EditorInv, Patient, OneFlow, [Next]_editorVars
    PROVE  OneFlow'
  <1>1. ASSUME NEW f \in Flows, Run(f) PROVE OneFlow'
    BY <1>1, RunsAlone DEF OneFlow, Working
  <1>2. ASSUME NEW f \in Flows, Click(f) PROVE OneFlow'
    <2>1. \E c, p : FlowOK(c) /\ Begin(f, c, p)
      BY <1>2, SaveTypes, ClickTypes
    <2> QED
      BY <2>1, BeginsAlone DEF OneFlow
  <1>3. CASE Form
    BY <1>3, FormTypes DEF OneFlow, Working
  <1>4. CASE ChangedElsewhere \/ UNCHANGED editorVars
    BY <1>4 DEF ChangedElsewhere, editorVars, OneFlow, Working
  <1> QED
    BY <1>1, <1>2, <1>3, <1>4 DEF Next

-----------------------------------------------------------------------------
(* The draft.                                                              *)

\* What stands in the form of a new configuration is the draft.
FormIsDraft(p) == p.shown = NoConfig /\ p.selectedConfig = NoConfig => p.input = p.draft

\* Rendering puts it there.
LEMMA RenderedDraft ==
    ASSUME NEW p \in Pages
    PROVE  /\ FormIsDraft(RenderEditor(p)) /\ FormIsDraft(Render(p))
           /\ RenderEditor(p).shown = p.selectedConfig
  BY DEF RenderEditor, Render, Pages, FormIsDraft

\* What the buttons but Save ask for: about the configuration that was chosen,
\* and for a change only while the form shows one.  The switcher's activation is
\* about any configuration that is listed.
ClickCall(c, p) ==
    \/ c.op = "list" /\ p = page
    \/ c.op = "load" /\ c.name \in page.listShown /\ p = BeginLoad(page, c.name)
    \/ /\ c.op = "select" /\ c.kind = "button" /\ p = page /\ page.shown # NoConfig
       /\ c.name = page.selectedConfigName
    \/ /\ c.op = "select" /\ c.kind = "switch" /\ p = page
       /\ c.name \in page.options \union page.namedConfigs
    \/ /\ c.op \in {"rename", "duplicate", "delete"} /\ c.kind = "button" /\ p = page
       /\ page.shown # NoConfig
       /\ page.selectedConfig # NoConfig /\ c.name = page.selectedConfig.name

Clicked(f, c, p) ==
    /\ FlowOK(c) /\ Begin(f, c, p) /\ ClickCall(c, p)
    /\ c.status = "asked" /\ c.update = NoUpdate /\ UNCHANGED savedVars

LEMMA ClickCalls ==
    ASSUME EditorInv, NEW f \in Flows, Click(f), ~Save(f)
    PROVE  \E c, p : Clicked(f, c, p)
  <1>1. /\ page \in Pages /\ page.selectedConfigName \in Names \union {NoName}
        /\ page.selectedConfig # NoConfig => page.selectedConfig.name \in Names
        /\ page.input \in Names \union {NoName}
        /\ scenario.names \subseteq Names \union {NoName}
    BY ScenarioType DEF EditorInv, Pages, Views, Inputs
  <1>2. CASE ClickRefresh(f)
    <2> DEFINE c == Fetches("fetch", "list", page.selectedConfigName)
    <2>1. /\ FlowOK(c) /\ c.status = "asked" /\ c.update = NoUpdate
          /\ c.op = "list"
      BY <1>1, <1>2, FetchType DEF Kinds, Fetches, Asks
    <2>2. Begin(f, c, page) /\ UNCHANGED savedVars
      BY <1>2 DEF ClickRefresh
    <2> HIDE DEF c
    <2> QED
      BY <2>1, <2>2 DEF Clicked, ClickCall
  <1>3. CASE Activate(f)
    <2> DEFINE c == Fetches("button", "select", page.selectedConfigName)
    <2>1. /\ FlowOK(c) /\ c.status = "asked" /\ c.update = NoUpdate
          /\ c.op = "select" /\ c.kind = "button" /\ c.name = page.selectedConfigName
      BY <1>1, <1>3, FetchType DEF Kinds, Fetches, Asks
    <2>2. /\ Begin(f, c, page) /\ UNCHANGED savedVars
          /\ page.shown # NoConfig
      BY <1>3 DEF Activate, ButtonsEnabled
    <2> HIDE DEF c
    <2> QED
      BY <2>1, <2>2 DEF Clicked, ClickCall
  <1>4. CASE ClickRename(f)
    <2> DEFINE c == Asks("button", "rename", page.selectedConfig.name, page.input, NoUpdate)
    <2>1. /\ FlowOK(c) /\ c.status = "asked" /\ c.update = NoUpdate
          /\ c.op = "rename" /\ c.kind = "button" /\ c.name = page.selectedConfig.name
      BY <1>1, <1>4, AskType, NoUpdateType DEF Kinds, Ops, Asks, ClickRename
    <2>2. /\ Begin(f, c, page) /\ UNCHANGED savedVars
          /\ page.shown # NoConfig /\ page.selectedConfig # NoConfig
      BY <1>4 DEF ClickRename, ButtonsEnabled
    <2> HIDE DEF c
    <2> QED
      BY <2>1, <2>2 DEF Clicked, ClickCall
  <1>5. CASE ClickDelete(f)
    <2> DEFINE c == Fetches("button", "delete", page.selectedConfig.name)
    <2>1. /\ FlowOK(c) /\ c.status = "asked" /\ c.update = NoUpdate
          /\ c.op = "delete" /\ c.kind = "button" /\ c.name = page.selectedConfig.name
      BY <1>1, <1>5, FetchType DEF Kinds, Fetches, Asks, ClickDelete
    <2>2. /\ Begin(f, c, page) /\ UNCHANGED savedVars
          /\ page.shown # NoConfig /\ page.selectedConfig # NoConfig
      BY <1>5 DEF ClickDelete, ButtonsEnabled
    <2> HIDE DEF c
    <2> QED
      BY <2>1, <2>2 DEF Clicked, ClickCall
  <1>6. ASSUME NEW n \in Names, ClickConfig(f, n)
        PROVE  \E c, p : Clicked(f, c, p)
    <2> DEFINE c == Fetches("fetch", "load", n)
    <2>1. /\ FlowOK(c) /\ c.status = "asked" /\ c.update = NoUpdate
          /\ c.op = "load" /\ c.name = n
      BY <1>1, <1>6, FetchType DEF Kinds, Fetches, Asks
    <2>2. /\ Begin(f, c, BeginLoad(page, n)) /\ UNCHANGED savedVars
          /\ n \in page.listShown
      BY <1>6 DEF ClickConfig
    <2> HIDE DEF c
    <2> QED
      BY <2>1, <2>2 DEF Clicked, ClickCall
  <1>7. ASSUME NEW n \in Names, ActivateFromSwitcher(f, n)
        PROVE  \E c, p : Clicked(f, c, p)
    <2> DEFINE c == Fetches("switch", "select", n)
    <2>1. /\ FlowOK(c) /\ c.status = "asked" /\ c.update = NoUpdate
          /\ c.op = "select" /\ c.kind = "switch" /\ c.name = n
      BY <1>1, <1>7, FetchType DEF Kinds, Fetches, Asks
    <2>2. /\ Begin(f, c, page) /\ UNCHANGED savedVars
          /\ n \in page.options \union page.namedConfigs
      BY <1>7 DEF ActivateFromSwitcher
    <2> HIDE DEF c
    <2> QED
      BY <2>1, <2>2 DEF Clicked, ClickCall
  <1>8. ASSUME NEW n \in scenario.names, ClickDuplicate(f, n)
        PROVE  \E c, p : Clicked(f, c, p)
    <2> DEFINE c == Asks("button", "duplicate", page.selectedConfig.name, n, NoUpdate)
    <2>1. /\ FlowOK(c) /\ c.status = "asked" /\ c.update = NoUpdate
          /\ c.op = "duplicate" /\ c.kind = "button" /\ c.name = page.selectedConfig.name
      BY <1>1, <1>8, AskType, NoUpdateType DEF Kinds, Ops, Asks, ClickDuplicate
    <2>2. /\ Begin(f, c, page) /\ UNCHANGED savedVars
          /\ page.shown # NoConfig /\ page.selectedConfig # NoConfig
      BY <1>8 DEF ClickDuplicate, ButtonsEnabled
    <2> HIDE DEF c
    <2> QED
      BY <2>1, <2>2 DEF Clicked, ClickCall
  <1> QED
    BY <1>2, <1>3, <1>4, <1>5, <1>6, <1>7, <1>8 DEF Click

LEMMA DraftStep ==
    ASSUME EditorInv, DraftInv, [Next]_editorVars
    PROVE  DraftInv'
  <1> SUFFICES ASSUME Patient PROVE DraftInv'
    BY ScenarioStays DEF DraftInv, Patient
  <1>0. /\ Patient /\ OneFlow /\ FormIsDraft(page) /\ page \in Pages /\ FlowsOK
        /\ \A f \in Flows : Working(f) /\ flows[f].op = "delete" => page.shown # NoConfig
    BY DEF DraftInv, FormIsDraft, EditorInv
  <1>1. OneFlow'
    BY <1>0, OneFlowStep
  <1>2. SUFFICES /\ FormIsDraft(page')
                 /\ \A f \in Flows : Working(f)' /\ flows'[f].op = "delete"
                                       => page'.shown # NoConfig
    BY <1>1 DEF DraftInv, FormIsDraft
  <1>3. CASE UNCHANGED <<page, flows>>
    BY <1>0, <1>3 DEF Working
  <1>4. ASSUME AllIdle, flows' = flows, FormIsDraft(page')
        PROVE  \A f \in Flows : Working(f)' /\ flows'[f].op = "delete" => page'.shown # NoConfig
    BY <1>4 DEF AllIdle, Working
  <1>5. ASSUME NEW f \in Flows, Run(f), FormIsDraft(page'),
               Working(f)' /\ flows'[f].op = "delete" => page'.shown # NoConfig
        PROVE  \A g \in Flows : Working(g)' /\ flows'[g].op = "delete" => page'.shown # NoConfig
    BY <1>0, <1>5, RunsAlone DEF OneFlow, Working
  <1>6. ASSUME NEW f \in Flows, Run(f)
        PROVE  /\ FormIsDraft(page')
               /\ Working(f)' /\ flows'[f].op = "delete" => page'.shown # NoConfig
    <2>0. Working(f) /\ FlowOK(flows[f])
      BY <1>0, <1>6, RunsAlone DEF FlowsOK
    <2>1. CASE Serve(f) \/ Refuse(f) \/ Fail(f)
      BY <1>0, <2>1, AnswerTypes
    <2>2. CASE Resume(f)
      <3> DEFINE c == flows[f]
      <3>1. /\ c.status = "answered" /\ c.op # "load" /\ c.op \in Ops /\ ~EmptyList(c)
            /\ page' = After(page, c) /\ flows'[f] = Following(page, c)
        BY <1>0, <2>0, <2>2 DEF Resume, FlowOK, Calls, FlowsOK
      <3>2. Following(page, c).op # "delete"
        <4>1. /\ FlowOK(Following(page, c))
              /\ Following(page, c).kind = (IF c.op = "select" THEN "button" ELSE c.kind)
              /\ c.kind # "save" => Following(page, c).op \in {"config", "list", "load"}
          BY <1>0, <2>0, <3>1, FollowingType
        <4> QED
          BY <2>0, <4>1 DEF FlowOK
      <3>3. AnswerOK(c)
        BY <2>0, <3>1 DEF FlowOK
      <3>4. CASE c.op \in {"rename", "put", "create", "select", "duplicate"}
        <4>1. c.data \in Views /\ c.data # NoConfig
          BY <3>3, <3>4, EditorAssumption DEF AnswerOK
        <4>2. After(page, c).selectedConfig # NoConfig
          BY <1>0, <2>0, <3>4, <4>1 DEF After, Choose, Pages, FlowOK
        <4> QED
          BY <3>1, <3>2, <4>2 DEF FormIsDraft
      <3>5. CASE c.op = "delete"
        <4>1. page.shown # NoConfig
          BY <1>0, <2>0, <3>5
        <4>2. After(page, c).shown = page.shown
          BY <1>0, <3>5 DEF After, NoSelection, ResetDraft, Pages
        <4> QED
          BY <3>1, <3>2, <4>1, <4>2 DEF FormIsDraft
      <3>6. CASE c.op \in {"config", "list"}
        <4>1. /\ After(page, c).shown = page.shown /\ After(page, c).input = page.input
              /\ After(page, c).selectedConfig = page.selectedConfig
              /\ After(page, c).draft = page.draft
          BY <1>0, <3>6 DEF After, BeginLoad, Pages
        <4> QED
          BY <1>0, <3>1, <3>2, <4>1 DEF FormIsDraft
      <3> QED
        BY <3>1, <3>4, <3>5, <3>6 DEF Ops
    <2>3. CASE ResumeLoad(f)
      <3> DEFINE p == [page EXCEPT !.selectedConfig = flows[f].data,
                                   !.saving = @ /\ flows[f].kind # "save"]
      <3>1. page' = Render(p) /\ flows[f].status = "answered" /\ flows[f].op = "load"
        BY <2>3 DEF ResumeLoad
      <3>2. flows[f].data \in Views
        BY <2>0, <3>1 DEF FlowOK, AnswerOK
      <3>3. p \in Pages
        BY <1>0, <3>2 DEF Pages
      <3> QED
        BY <2>3, <3>1, <3>3, RenderedDraft, EndTypes DEF Working, Ends
    <2>4. CASE ResumeEmpty(f)
      <3> DEFINE p == [NoSelection(page) EXCEPT !.namedConfigs = {},
                                                !.saving = @ /\ flows[f].kind # "save"]
      <3>1. NoSelection(page) \in Pages
        BY <1>0, NoSelectionType
      <3>2. p \in Pages
        BY <3>1 DEF Pages
      <3>3. page' = Render(p) /\ flows'[f] = Idle
        BY <2>4, EndTypes DEF ResumeEmpty, Ends
      <3> QED
        BY <3>2, <3>3, RenderedDraft DEF Working
    <2>5. CASE ResumeError(f)
      <3> DEFINE p == [page EXCEPT !.saving = FALSE]
      <3>1. p \in Pages
        BY <1>0 DEF Pages
      <3>2. page' \in {page, RenderEditor(p)} /\ flows'[f] = Idle
        BY <2>5, EndTypes DEF ResumeError, Ends
      <3>3. FormIsDraft(page')
        BY <1>0, <3>1, <3>2, RenderedDraft
      <3> QED
        BY <3>2, <3>3 DEF Working
    <2> QED
      BY <1>6, <2>1, <2>2, <2>3, <2>4, <2>5 DEF Run, Ends
  <1>7. ASSUME NEW f \in Flows, Click(f)
        PROVE  /\ FormIsDraft(page')
               /\ \A g \in Flows : Working(g)' /\ flows'[g].op = "delete"
                                     => page'.shown # NoConfig
    <2>1. CASE Save(f)
      <3> DEFINE q == [page EXCEPT !.saving = TRUE]
      <3>1. PICK c, p : FlowOK(c) /\ c.kind = "save" /\ Begin(f, c, p)
        BY <2>1, SaveTypes
      <3>2. /\ Working(f)' /\ flows'[f] = c /\ c.op # "delete"
            /\ \A g \in Flows \ {f} : ~Working(g)'
        BY <1>0, <3>1, BeginsAlone DEF FlowOK
      <3>3. q \in Pages
        BY <1>0 DEF Pages
      <3>4. RenderEditor(q) \in Pages /\ FormIsDraft(RenderEditor(q))
        BY <3>3, RenderEditorType, RenderedDraft
      <3>5. page' = [RenderEditor(q) EXCEPT !.options = {}]
        BY <2>1 DEF Save, Begin
      <3> HIDE DEF q
      <3>6. FormIsDraft(page')
        BY <3>4, <3>5 DEF FormIsDraft, Pages
      <3> QED
        BY <3>2, <3>6
    <2>2. CASE ~Save(f)
      <3>1. PICK c, p : FlowOK(c) /\ Begin(f, c, p) /\ ClickCall(c, p)
        BY <1>7, <2>2, ClickCalls DEF Clicked
      <3>2. flows'[f] = c /\ \A g \in Flows \ {f} : ~Working(g)'
        BY <1>0, <3>1, BeginsAlone
      <3>3. /\ p \in Pages /\ page' = [p EXCEPT !.options = {}]
            /\ p.shown = page.shown /\ p.selectedConfig = page.selectedConfig
            /\ p.input = page.input /\ p.draft = page.draft
            /\ c.op = "delete" => page.shown # NoConfig
        <4>1. CASE p = page
          BY <1>0, <3>1, <4>1 DEF Begin, ClickCall
        <4>2. CASE c.op = "load" /\ c.name \in page.listShown /\ p = BeginLoad(page, c.name)
          <5>1. c.name \in Names
            BY <1>0, <4>2 DEF Pages
          <5>2. p \in Pages
            BY <1>0, <4>2, <5>1, BeginLoadType
          <5> QED
            BY <1>0, <3>1, <4>2, <5>2 DEF Begin, BeginLoad, Pages
        <4> QED
          BY <3>1, <4>1, <4>2 DEF ClickCall
      <3>4. /\ page'.shown = page.shown /\ page'.selectedConfig = page.selectedConfig
            /\ page'.input = page.input /\ page'.draft = page.draft
        BY <3>3 DEF Pages
      <3> QED
        BY <1>0, <3>2, <3>3, <3>4 DEF FormIsDraft
    <2> QED
      BY <2>1, <2>2
  <1>8. CASE Form
    <2>1. AllIdle /\ flows' = flows
      BY <1>0, <1>8, ActsWhenIdle DEF Form, Type, TypeName, TypeKey, ClickCreate, SaveInvalid,
         RenderAll, OpenSwitcher, CloseSwitcher
    <2>2. CASE \E n \in scenario.names : TypeName(n)
      BY <1>0, <1>4, <2>1, <2>2 DEF TypeName, FormIsDraft, Pages
    <2>3. CASE (\E k \in scenario.keys : TypeKey(k)) \/ SaveInvalid \/ OpenSwitcher \/ CloseSwitcher
      BY <1>0, <1>4, <2>1, <2>3
         DEF TypeKey, SaveInvalid, OpenSwitcher, CloseSwitcher, FormIsDraft, Pages
    <2>4. CASE ClickCreate
      <3>1. RenderEditor(ResetDraft(page)) \in Pages
            /\ FormIsDraft(RenderEditor(ResetDraft(page)))
        BY <1>0, ResetDraftType, RenderEditorType, RenderedDraft
      <3>2. FormIsDraft(page')
        BY <2>4, <3>1 DEF ClickCreate, FormIsDraft, Pages
      <3> QED
        BY <1>4, <2>1, <3>2
    <2>5. CASE RenderAll
      <3>1. FormIsDraft(page')
        BY <1>0, <2>5, RenderedDraft DEF RenderAll
      <3> QED
        BY <1>4, <2>1, <3>1
    <2> QED
      BY <1>8, <2>2, <2>3, <2>4, <2>5 DEF Form, Type
  <1>9. CASE ChangedElsewhere \/ UNCHANGED editorVars
    BY <1>3, <1>9 DEF ChangedElsewhere, editorVars
  <1> QED
    BY <1>5, <1>6, <1>7, <1>8, <1>9 DEF Next

\* DraftKept is an invariant, whatever fails and whoever else changes the
\* configurations, for a user who waits.
THEOREM DraftsAreKept == Spec => []DraftKept
  <1>1. Init => DraftInv
    BY DEF Init, DraftInv, OneFlow, Working, Fetches, Asks
  <1>2. DraftInv => DraftKept
    BY DEF DraftInv, DraftKept, Patient
  <1> QED
    BY <1>1, <1>2, DraftStep, EditorInvariant, PTL DEF Spec

-----------------------------------------------------------------------------
(* The settled page.                                                       *)

\* What is not asked of the server does not change it.
LEMMA ServerStays ==
    ASSUME UNCHANGED savedVars
    PROVE  /\ Saved' = Saved
           /\ \A n : Exists(n)' <=> Exists(n)
           /\ \A p : SettledOn(p) => SettledOn(p)'
  <1>1. /\ configurations' = configurations
        /\ \A n : Exists(n)' <=> Exists(n)
    BY DEF savedVars, Exists
  <1>2. Saved' = Saved
    BY <1>1 DEF Saved
  <1> QED
    BY <1>1, <1>2 DEF SettledOn

\* Rendering a settled page, or what does not show on it, leaves it settled.
LEMMA SettledRendered ==
    ASSUME NEW p \in Pages, SettledOn(p)
    PROVE  SettledOn(RenderEditor(p)) /\ SettledOn(Render(p))
  BY DEF SettledOn, KeyIsForForm, RenderEditor, Render, Pages

LEMMA SettledByParts ==
    ASSUME NEW p, NEW q, SettledOn(p), KeyIsForForm(q), q.options \subseteq Saved,
           q.namedConfigs = p.namedConfigs, q.listShown = p.listShown, q.shown = p.shown,
           q.selectedConfig = p.selectedConfig, q.selectedConfigName = p.selectedConfigName
    PROVE  SettledOn(q)
  BY DEF SettledOn

\* A new form is settled where the list is.
LEMMA SettledNew ==
    ASSUME NEW p \in Pages, SettledOn(p)
    PROVE  SettledOn(RenderEditor(ResetDraft(p)))
  BY DEF SettledOn, KeyIsForForm, RenderEditor, NoSelection, ResetDraft, Pages

\* Closing the switcher, or opening it, leaves a page settled.
LEMMA SettledClosed ==
    ASSUME NEW p \in Pages, NEW S, S \subseteq Saved, SettledOn(p)
    PROVE  SettledOn([p EXCEPT !.options = S])
  BY DEF SettledOn, KeyIsForForm, Pages

\* Loading a configuration of the list settles the page.
LEMMA SettledLoaded ==
    ASSUME NEW p \in Pages, p.namedConfigs = Saved, Exists(p.selectedConfigName),
           p.draftKey = Blank, p.selectedConfig = View(p.selectedConfigName, configurations)
    PROVE  SettledOn(Render(p))
  <1> DEFINE n == p.selectedConfigName
             v == View(n, configurations)
  <1>1. v \in Views /\ v.name = n /\ v # NoConfig
    BY ViewType, EditorAssumption DEF Exists, View
  <1>2. /\ Render(p).namedConfigs = Saved /\ Render(p).listShown = Saved
        /\ Render(p).shown = v /\ Render(p).selectedConfig = v
        /\ Render(p).selectedConfigName = n /\ Render(p).draftKey = Blank
        /\ Render(p).options \subseteq Saved
    BY DEF Render, RenderEditor, Pages
  <1> HIDE DEF v
  <1> QED
    BY <1>1, <1>2 DEF SettledOn, KeyIsForForm, v

\* On a settled page Save updates the configuration in the form, or creates one
\* from a new form; a key is sent when one was typed.
LEMMA SavesForm ==
    ASSUME NEW p \in Pages, SettledOn(p)
    PROVE  LET busy == RenderEditor(p)
               c == SaveCall(busy)
           IN /\ c.status = "asked"
              /\ \/ c.op = "create" /\ busy.shown = NoConfig
                 \/ c.op = "put" /\ busy.shown # NoConfig /\ c.name = busy.shown.name
              /\ c.update.apiKey # Absent => busy.draftKey # Blank
  <1> DEFINE busy == RenderEditor(p)
             v == p.selectedConfig
  <1>1. /\ busy.shown = v /\ busy.selectedConfig = v
        /\ busy.selectedConfigName = p.selectedConfigName
        /\ busy.input = IF v = NoConfig THEN p.draft ELSE v.name
    BY DEF RenderEditor, Pages
  <1>2. v # NoConfig => p.selectedConfigName = v.name
    BY DEF SettledOn
  <1>3. Payload(busy).apiKey # Absent => busy.draftKey # Blank
    BY DEF Payload
  <1> HIDE DEF busy, v
  <1>4. CASE v = NoConfig
    <2>1. SaveCall(busy) = Asks("save", "create", NoName, busy.input, Payload(busy))
      BY <1>1, <1>4 DEF SaveCall
    <2> QED
      BY <1>1, <1>3, <1>4, <2>1 DEF Asks, busy
  <1>5. CASE v # NoConfig
    <2>1. SaveCall(busy) = Asks("save", "put", v.name, NoName, Payload(busy))
      BY <1>1, <1>2, <1>5 DEF SaveCall
    <2> QED
      BY <1>1, <1>3, <1>5, <2>1 DEF Asks, busy
  <1> QED
    BY <1>4, <1>5

-----------------------------------------------------------------------------
(* The steps of a calm behaviour.                                          *)

\* A calm page: nothing is under way and it is settled, or one function is.
CalmPage ==
    /\ AllIdle => SettledPage
    /\ \A f \in Flows : Working(f) => ChangeInv(flows[f]) /\ FetchInv(flows[f])

LEMMA NoUpdateNoKey == NoUpdate.apiKey = Absent
  BY DEF NoUpdate

\* The page is calm when the one function under way is about to be.
LEMMA CalmWhileWorking ==
    ASSUME NEW f \in Flows, Working(f)', \A g \in Flows \ {f} : ~Working(g)',
           NEW c, flows'[f] = c, ChangeInv(c)', FetchInv(c)'
    PROVE  CalmPage'
  BY DEF CalmPage, AllIdle, ChangeInv, FetchInv, Changes

LEMMA CalmWhenIdle ==
    ASSUME \A g \in Flows : ~Working(g)', SettledPage'
    PROVE  CalmPage'
  BY DEF CalmPage

\* The server answers; a change leaves the page behind, a fetch does not change
\* the server.
LEMMA CalmServed ==
    ASSUME EditorInv, OneFlow, CalmPage, NEW f \in Flows, Serve(f)
    PROVE  CalmPage'
  <1> DEFINE c == flows[f]
  <1> PICK r : r = flows'[f]
    OBVIOUS
  <1>1. /\ Working(f) /\ FlowOK(c) /\ c \in Calls /\ c.op \in Ops /\ FetchInv(c)
        /\ FlowsOK
    BY DEF Serve, EditorInv, FlowsOK, FlowOK, Calls, CalmPage
  <1>2. /\ Working(f)' /\ \A g \in Flows \ {f} : ~Working(g)'
        /\ UNCHANGED page
    BY <1>1, AnswerTypes DEF OneFlow, Working
  <1>3. /\ r.status = "answered" /\ r.op = c.op /\ r.kind = c.kind /\ r.name = c.name
        /\ r.data = Described(c, configurations')
    BY <1>1 DEF Serve, Calls, FlowsOK
  <1>4. ChangeInv(r)'
    BY <1>3 DEF ChangeInv
  <1>5. c.op \in {"config", "list", "load"} => UNCHANGED savedVars
    BY DEF Serve, Effect
  <1>6. r.op = "list" => r.data = [names |-> Saved', active |-> selected']
    BY <1>3, <1>5, ServerStays DEF Described, savedVars
  <1>7. r.op = "load" => r.data = View(r.name, configurations')
    BY <1>3 DEF Described
  <1>8. FetchInv(r)'
    <2>1. CASE r.op = "load"
      BY <1>1, <1>2, <1>3, <1>5, <1>7, <2>1, ServerStays DEF FetchInv
    <2>2. CASE r.op # "load"
      BY <1>1, <1>3, <1>6, <2>2 DEF FetchInv
    <2> QED
      BY <2>1, <2>2
  <1> QED
    BY <1>2, <1>4, <1>8, CalmWhileWorking

\* Only a change is refused: a configuration that is to be loaded exists.
LEMMA CalmRefused ==
    ASSUME EditorInv, OneFlow, CalmPage, NEW f \in Flows, Refuse(f)
    PROVE  CalmPage'
  <1> DEFINE c == flows[f]
  <1> PICK r : r = flows'[f]
    OBVIOUS
  <1>1. /\ Working(f) /\ FlowOK(c) /\ c \in Calls /\ c.op \in Ops /\ FlowsOK
        /\ ChangeInv(c) /\ FetchInv(c)
    BY DEF Refuse, EditorInv, FlowsOK, FlowOK, Calls, CalmPage
  <1>2. /\ Working(f)' /\ \A g \in Flows \ {f} : ~Working(g)'
        /\ UNCHANGED <<page, savedVars>>
    BY <1>1, AnswerTypes DEF OneFlow, Working, Refuse
  <1>3. /\ r.op = c.op /\ r.kind = c.kind /\ r.name = c.name /\ r.update = c.update
        /\ c.status = "asked" /\ r.status # "answered"
    BY <1>1 DEF Refuse, Calls, FlowsOK
  <1>4. c.op \in Changes
    BY <1>1 DEF Refuse, Accepts, FetchInv, Ops, Changes
  <1>5. SettledPage'
    BY <1>1, <1>2, <1>3, <1>4, ServerStays DEF ChangeInv, SettledPage
  <1>6. ChangeInv(r)'
    BY <1>1, <1>2, <1>3, <1>4, <1>5, ServerStays DEF ChangeInv
  <1>7. FetchInv(r)'
    BY <1>1, <1>3, <1>4 DEF FetchInv, Changes
  <1> QED
    BY <1>2, <1>6, <1>7, CalmWhileWorking

\* After a change, or the active configuration, the list is fetched; of the list
\* a configuration that is in it.
LEMMA CalmResumed ==
    ASSUME EditorInv, OneFlow, CalmPage, NEW f \in Flows, Resume(f)
    PROVE  CalmPage'
  <1> DEFINE c == flows[f]
  <1> PICK d : d = Following(page, c)
    OBVIOUS
  <1>1. /\ Working(f) /\ FlowOK(c) /\ c \in Calls /\ c.op \in Ops /\ FlowsOK /\ page \in Pages
        /\ c.status = "answered" /\ c.op # "load" /\ FetchInv(c) /\ AnswerOK(c)
    BY DEF Resume, EditorInv, FlowsOK, FlowOK, Calls, CalmPage
  <1>2. /\ Working(f)' /\ UNCHANGED savedVars
        /\ \A g \in Flows \ {f} : ~Working(g)'
    BY <1>1, ResumeTypes DEF OneFlow, Working
  <1>3. flows'[f] = d /\ page' = After(page, c)
    BY <1>1 DEF Resume, FlowsOK
  <1>4. CASE c.op # "list"
    <2>1. d.op \in {"config", "list"} /\ d.status = "asked"
      BY <1>1, <1>4 DEF Following, Fetches, Asks, Ops, FetchInv, FlowOK
    <2>2. ChangeInv(d)' /\ FetchInv(d)'
      BY <2>1 DEF ChangeInv, FetchInv, Changes
    <2> QED
      BY <1>2, <1>3, <2>2, CalmWhileWorking
  <1>5. CASE c.op = "list"
    <2> DEFINE p == [page EXCEPT !.namedConfigs = c.data.names]
    <2> PICK n : n = Preferred(c.data, c.name)
      OBVIOUS
    <2>1. c.data.names = Saved
      BY <1>1, <1>5 DEF FetchInv, AnswerOK
    <2>2. n \in Saved
      BY <2>1, <1>1, <1>5, PreferredType DEF Resume, EmptyList, AnswerOK
    <2>3. d.op = "load" /\ d.status = "asked" /\ d.name = n
      BY <1>5 DEF Following, Fetches, Asks
    <2>4. page' = BeginLoad(p, n)
      BY <1>3, <1>5 DEF After
    <2>5. /\ page'.namedConfigs = Saved /\ page'.selectedConfigName = n
          /\ page'.draftKey = Blank
      BY <1>1, <2>1, <2>4 DEF BeginLoad, Pages
    <2>6. Exists(n)' /\ Saved' = Saved
      <3>1. Exists(n)
        BY <2>2 DEF Saved
      <3> QED
        BY <1>2, <3>1, ServerStays
    <2>7. ChangeInv(d)' /\ FetchInv(d)'
      BY <2>3, <2>5, <2>6 DEF ChangeInv, FetchInv, Changes
    <2> QED
      BY <1>2, <1>3, <2>7, CalmWhileWorking
  <1> QED
    BY <1>4, <1>5

\* A function ends on a settled page: with the configuration it has loaded, or
\* with a change that was refused.
LEMMA CalmEnded ==
    ASSUME EditorInv, OneFlow, Calm, CalmPage, NEW f \in Flows, Ends(f)
    PROVE  CalmPage'
  <1> DEFINE c == flows[f]
  <1>1. /\ Working(f) /\ FlowOK(c) /\ FlowsOK /\ page \in Pages
        /\ ChangeInv(c) /\ FetchInv(c)
    BY DEF Ends, ResumeEmpty, ResumeLoad, ResumeError, EditorInv, FlowsOK, CalmPage
  <1>2. /\ \A g \in Flows : ~Working(g)'
        /\ UNCHANGED savedVars
    BY <1>1, EndTypes DEF OneFlow, Working
  <1>3. ~ResumeEmpty(f)
    <2>1. selected \in Saved
      BY DEF Calm, EditorInv, ServerInv, Saved
    <2> QED
      BY <1>1, <2>1 DEF ResumeEmpty, EmptyList, FetchInv
  <1>4. CASE ResumeLoad(f)
    <2> DEFINE s == page.saving /\ c.kind # "save"
               p == [page EXCEPT !.selectedConfig = c.data, !.saving = s]
    <2>1. /\ c.op = "load" /\ c.status = "answered" /\ c.data \in Views
          /\ page' = Render(p) /\ s \in BOOLEAN
      BY <1>1, <1>4 DEF ResumeLoad, FlowOK, AnswerOK, Pages
    <2>2. /\ page.namedConfigs = Saved /\ page.draftKey = Blank
          /\ Exists(page.selectedConfigName)
          /\ c.data = View(page.selectedConfigName, configurations)
      BY <1>1, <2>1 DEF FetchInv
    <2> HIDE DEF s
    <2>3. /\ p \in Pages /\ p.namedConfigs = Saved /\ p.draftKey = Blank
          /\ p.selectedConfigName = page.selectedConfigName /\ p.selectedConfig = c.data
      BY <1>1, <2>1, <2>2 DEF Pages
    <2> HIDE DEF p
    <2>4. SettledOn(Render(p))
      BY <2>2, <2>3, SettledLoaded
    <2>5. SettledPage'
      BY <1>2, <2>1, <2>4, ServerStays DEF SettledPage
    <2> QED
      BY <1>2, <2>5, CalmWhenIdle
  <1>5. CASE ResumeError(f)
    <2> DEFINE p == [page EXCEPT !.saving = FALSE]
    <2>1. c.status = "failed" /\ page' \in {page, RenderEditor(p)}
      BY <1>5 DEF ResumeError
    <2>2. SettledOn(page)
      BY <1>1, <2>1 DEF ChangeInv, FetchInv, SettledPage
    <2>3. p \in Pages /\ SettledOn(p)
      BY <1>1, <2>2 DEF SettledOn, KeyIsForForm, Pages
    <2> HIDE DEF p
    <2>4. SettledOn(page')
      BY <2>1, <2>2, <2>3, SettledRendered
    <2> PICK q : q = page'
      OBVIOUS
    <2>5. SettledPage'
      <3>1. SettledOn(q)'
        BY <1>2, <2>4, ServerStays
      <3> QED
        BY <3>1 DEF SettledPage
    <2> QED
      BY <1>2, <2>5, CalmWhenIdle
  <1> QED
    BY <1>3, <1>4, <1>5 DEF Ends

\* What the user clicks on a settled page is about what is in the form, or in the
\* list.
LEMMA CalmClicked ==
    ASSUME EditorInv, CalmPage, Patient, NEW f \in Flows, Click(f)
    PROVE  CalmPage'
  <1>1. page \in Pages
    BY DEF EditorInv
  <1>2. CASE Save(f)
    <2> DEFINE p == [page EXCEPT !.saving = TRUE]
    <2> PICK busy : busy = RenderEditor(p)
      OBVIOUS
    <2> PICK c : c = SaveCall(busy)
      OBVIOUS
    <2>1. Begin(f, c, busy) /\ page' = [busy EXCEPT !.options = {}] /\ UNCHANGED savedVars
      BY <1>2 DEF Save, Begin
    <2>2. p \in Pages /\ busy \in Pages
      <3>1. p \in Pages
        BY <1>1 DEF Pages
      <3> HIDE DEF p
      <3> QED
        BY <3>1, RenderEditorType
    <2>3. FlowOK(c) /\ c.kind = "save"
      BY <2>2, SaveCallType
    <2>4. /\ AllIdle /\ Working(f)' /\ flows'[f] = c /\ \A g \in Flows \ {f} : ~Working(g)'
      BY <2>1, <2>3, BeginsAlone
    <2>5. SettledOn(p)
      BY <1>1, <2>4 DEF CalmPage, SettledPage, SettledOn, KeyIsForForm, Pages
    <2> HIDE DEF p
    <2>6. SettledOn(busy)
      BY <2>2, <2>5, SettledRendered
    <2>7. SettledPage'
      <3> PICK q : q = page'
        OBVIOUS
      <3>1. SettledOn(q)
        BY <2>1, <2>2, <2>6, SettledClosed
      <3>2. SettledOn(q)'
        BY <2>1, <3>1, ServerStays
      <3> QED
        BY <3>2 DEF SettledPage
    <2>8. /\ c.status = "asked"
          /\ \/ c.op = "create" /\ busy.shown = NoConfig
             \/ c.op = "put" /\ busy.shown # NoConfig /\ c.name = busy.shown.name
          /\ c.update.apiKey # Absent => busy.draftKey # Blank
      BY <2>2, <2>5, SavesForm
    <2>9. page'.shown = busy.shown /\ page'.draftKey = busy.draftKey
      BY <2>1, <2>2 DEF Pages
    <2>10. ChangeInv(c)'
      BY <2>3, <2>7, <2>8, <2>9 DEF ChangeInv
    <2>11. FetchInv(c)'
      BY <2>8 DEF FetchInv, Changes
    <2> QED
      BY <2>4, <2>10, <2>11, CalmWhileWorking
  <1>3. CASE ~Save(f)
    <2>1. PICK c, p : Clicked(f, c, p)
      BY <1>3, ClickCalls
    <2>2. /\ FlowOK(c) /\ ClickCall(c, p) /\ c.status = "asked" /\ c.update = NoUpdate
          /\ UNCHANGED savedVars
      BY <2>1 DEF Clicked
    <2>3. /\ AllIdle /\ Working(f)' /\ flows'[f] = c /\ \A g \in Flows \ {f} : ~Working(g)'
          /\ page' = [p EXCEPT !.options = {}]
      BY <2>1, BeginsAlone DEF Clicked, Begin
    <2>4. SettledOn(page)
      BY <2>3 DEF CalmPage, SettledPage
    <2>5. CASE c.op = "list"
      BY <2>2, <2>3, <2>5, CalmWhileWorking DEF ChangeInv, FetchInv, Changes
    <2>6. CASE c.op = "load"
      <3>1. c.name \in Saved /\ p = BeginLoad(page, c.name)
        BY <2>2, <2>4, <2>6 DEF ClickCall, SettledOn
      <3>2. /\ p \in Pages /\ p.namedConfigs = Saved /\ p.selectedConfigName = c.name
            /\ p.draftKey = Blank
        BY <1>1, <2>4, <3>1, BeginLoadType DEF BeginLoad, Pages, SettledOn, Saved
      <3>3. /\ page'.namedConfigs = Saved /\ page'.selectedConfigName = c.name
            /\ page'.draftKey = Blank
        BY <2>3, <3>2 DEF Pages
      <3>4. Exists(c.name)
        BY <3>1 DEF Saved
      <3>5. FetchInv(c)'
        BY <2>2, <2>6, <3>3, <3>4, ServerStays DEF FetchInv
      <3>6. ChangeInv(c)'
        BY <2>6 DEF ChangeInv, Changes
      <3> QED
        BY <2>3, <3>5, <3>6, CalmWhileWorking
    <2>7. CASE c.op \in {"select", "rename", "duplicate", "delete"}
      <3>1. /\ p = page
            /\ IF c.kind = "switch" THEN c.name \in Saved
               ELSE page.shown # NoConfig /\ c.name = page.shown.name
        BY <2>2, <2>4, <2>7 DEF ClickCall, SettledOn
      <3>2. page' = [page EXCEPT !.options = {}] /\ page'.shown = page.shown
        BY <1>1, <2>3, <3>1 DEF Pages
      <3>3. SettledPage'
        <4> PICK q : q = page'
          OBVIOUS
        <4>1. SettledOn(q)
          BY <1>1, <2>4, <3>2, SettledClosed
        <4>2. SettledOn(q)'
          BY <2>2, <4>1, ServerStays
        <4> QED
          BY <4>2 DEF SettledPage
      <3>4. ChangeInv(c)'
        BY <2>2, <2>7, <3>1, <3>2, <3>3, NoUpdateNoKey, ServerStays DEF ChangeInv
      <3>5. FetchInv(c)'
        BY <2>2, <2>7 DEF FetchInv, Changes, ClickCall
      <3> QED
        BY <2>3, <3>4, <3>5, CalmWhileWorking
    <2> QED
      BY <2>2, <2>5, <2>6, <2>7 DEF ClickCall
  <1> QED
    BY <1>2, <1>3

\* What the user types is for what is in the form.
LEMMA CalmTyped ==
    ASSUME EditorInv, CalmPage, Patient, Form
    PROVE  CalmPage'
  <1>1. AllIdle /\ flows' = flows /\ page \in Pages /\ UNCHANGED savedVars
    BY ActsWhenIdle DEF Form, Type, TypeName, TypeKey, ClickCreate, SaveInvalid, RenderAll,
       OpenSwitcher, CloseSwitcher, EditorInv
  <1>2. SettledOn(page)
    BY <1>1 DEF CalmPage, SettledPage
  <1> PICK q : q = page'
    OBVIOUS
  <1>3. SettledOn(q)
    <2>1. CASE \E n \in scenario.names : TypeName(n)
      BY <1>1, <1>2, <2>1 DEF TypeName, SettledOn, KeyIsForForm, Pages
    <2>2. CASE \E k \in scenario.keys : TypeKey(k)
      <3>1. PICK k \in scenario.keys :
              page' = [page EXCEPT !.draftKey = k,
                                   !.keyFor = IF k = Blank \/ page.shown = NoConfig
                                                THEN NoName ELSE page.shown.name]
        BY <2>2 DEF TypeKey
      <3>2. KeyIsForForm(q)
        BY <1>1, <3>1 DEF KeyIsForForm, Pages
      <3>3. q.options \subseteq Saved
        BY <1>1, <1>2, <3>1 DEF SettledOn, Pages
      <3> QED
        BY <1>1, <1>2, <3>1, <3>2, <3>3, SettledByParts DEF Pages
    <2>3. CASE ClickCreate
      <3>1. /\ RenderEditor(ResetDraft(page)) \in Pages
            /\ SettledOn(RenderEditor(ResetDraft(page)))
        BY <1>1, <1>2, SettledNew, ResetDraftType, RenderEditorType
      <3> QED
        BY <2>3, <3>1, SettledClosed DEF ClickCreate
    <2>4. CASE SaveInvalid \/ CloseSwitcher
      BY <1>1, <1>2, <2>4, SettledClosed DEF SaveInvalid, CloseSwitcher
    <2>5. CASE OpenSwitcher
      <3>1. page.namedConfigs \subseteq Saved
        BY <1>2 DEF SettledOn
      <3> QED
        BY <1>1, <1>2, <2>5, <3>1, SettledClosed DEF OpenSwitcher
    <2>6. CASE RenderAll
      BY <1>1, <1>2, <2>6, SettledRendered DEF RenderAll
    <2> QED
      BY <2>1, <2>2, <2>3, <2>4, <2>5, <2>6 DEF Form, Type
  <1>4. SettledPage'
    <2>1. SettledOn(q)'
      BY <1>1, <1>3, ServerStays
    <2> QED
      BY <2>1 DEF SettledPage
  <1>5. \A g \in Flows : ~Working(g)'
    BY <1>1 DEF AllIdle, Working
  <1> QED
    BY <1>4, <1>5, CalmWhenIdle

LEMMA CalmStep ==
    ASSUME EditorInv, Calm, OneFlow, CalmPage, [Next]_editorVars
    PROVE  CalmPage'
  <1>1. ASSUME NEW f \in Flows, Run(f) PROVE CalmPage'
    <2>1. ~Fail(f)
      BY DEF Fail, Calm
    <2> QED
      BY <1>1, <2>1, CalmServed, CalmRefused, CalmResumed, CalmEnded DEF Run
  <1>2. ASSUME NEW f \in Flows, Click(f) PROVE CalmPage'
    BY <1>2, CalmClicked, CalmIsPatient
  <1>3. CASE Form
    BY <1>3, CalmTyped, CalmIsPatient
  <1>4. ~ChangedElsewhere
    BY DEF ChangedElsewhere, Calm
  <1>5. CASE UNCHANGED editorVars
    <2>1. /\ UNCHANGED <<page, flows>> /\ UNCHANGED savedVars
          /\ selected' = selected /\ configurations' = configurations
      BY <1>5 DEF editorVars, savedVars
    <2>2. Saved' = Saved /\ (SettledPage => SettledPage')
      BY <2>1, ServerStays DEF SettledPage
    <2>3. \A f \in Flows : ChangeInv(flows[f]) => ChangeInv(flows[f])'
      BY <2>1, <2>2 DEF ChangeInv
    <2>4. \A f \in Flows : FetchInv(flows[f]) => FetchInv(flows[f])'
      BY <2>1, ServerStays DEF FetchInv
    <2> QED
      BY <2>1, <2>2, <2>3, <2>4 DEF CalmPage, AllIdle, Working
  <1> QED
    BY <1>1, <1>2, <1>3, <1>4, <1>5 DEF Next

CalmInv == Calm => OneFlow /\ CalmPage

LEMMA CalmAlways == Spec => []CalmInv
  <1>1. Init => CalmPage /\ OneFlow
    <2> DEFINE first == Fetches("fetch", "list", NoName)
    <2> SUFFICES ASSUME Init PROVE CalmPage /\ OneFlow
      OBVIOUS
    <2>1. PICK f \in Flows : flows = [g \in Flows |-> IF g = f THEN first ELSE Idle]
      BY DEF Init
    <2>2. first # Idle
      BY FetchType, EditorAssumption DEF Kinds, FlowOK
    <2>3. ChangeInv(first) /\ FetchInv(first)
      BY DEF ChangeInv, FetchInv, Changes, Fetches, Asks
    <2> HIDE DEF first
    <2>4. /\ ~AllIdle /\ OneFlow
          /\ \A g \in Flows : Working(g) => flows[g] = first
      BY <2>1, <2>2 DEF AllIdle, OneFlow, Working
    <2> QED
      BY <2>3, <2>4 DEF CalmPage
  <1>2. EditorInv /\ CalmInv /\ [Next]_editorVars => CalmInv'
    BY OneFlowStep, CalmStep, CalmIsPatient, ScenarioStays DEF CalmInv, Calm
  <1> QED
    BY <1>1, <1>2, EditorInvariant, PTL DEF Spec, CalmInv

\* SettledEditor is an invariant: however many functions the user starts one after
\* the other, and whichever of them the server refuses.
THEOREM EditorSettles == Spec => []SettledEditor
  <1>1. CalmInv => SettledEditor
    BY DEF CalmInv, SettledEditor, CalmPage, SettledPage, SettledOn
  <1> QED
    BY <1>1, CalmAlways, PTL

\* CallsMeanWhatIsShown is an invariant: a button's call is about the configuration
\* in the form, and the switcher's about one that is in the list.
THEOREM CallsAreAboutScreen == Spec => []CallsMeanWhatIsShown
  <1>1. CalmInv => CallsMeanWhatIsShown
    <2> SUFFICES ASSUME CalmInv, Calm, NEW f \in Flows, Working(f),
                        flows[f].status = "asked",
                        flows[f].op \in {"put", "rename", "duplicate", "select", "delete"}
                 PROVE  IF flows[f].kind = "switch"
                          THEN flows[f].name \in page.listShown /\ Exists(flows[f].name)
                          ELSE page.shown # NoConfig /\ flows[f].name = page.shown.name
      BY DEF CallsMeanWhatIsShown
    <2>1. ChangeInv(flows[f]) /\ flows[f].op \in Changes /\ flows[f].op # "create"
      BY DEF CalmInv, CalmPage, Changes
    <2>2. SettledPage
      BY <2>1 DEF ChangeInv
    <2> QED
      BY <2>1, <2>2 DEF ChangeInv, SettledPage, SettledOn, Saved
  <1> QED
    BY <1>1, CalmAlways, PTL

\* KeyGoesWhereTyped is an invariant: no key is sent with another configuration
\* than it was typed for.
THEOREM KeysGoWhereTyped == Spec => []KeyGoesWhereTyped
  <1>1. EditorInv /\ CalmInv => KeyGoesWhereTyped
    <2> SUFFICES ASSUME EditorInv, CalmInv, Calm, NEW f \in Flows, Working(f),
                        flows[f].status = "asked", flows[f].update.apiKey # Absent,
                        flows[f].op \in {"put", "create"}
                 PROVE  IF flows[f].op = "put" THEN flows[f].name = page.keyFor
                                               ELSE page.keyFor = NoName
      BY DEF KeyGoesWhereTyped
    <2>1. ChangeInv(flows[f]) /\ flows[f].op \in Changes /\ flows[f].kind # "switch"
      BY DEF CalmInv, CalmPage, Changes, EditorInv, FlowsOK, FlowOK, Working
    <2>2. SettledPage /\ page.draftKey # Blank
      BY <2>1 DEF ChangeInv
    <2> QED
      BY <2>1, <2>2 DEF ChangeInv, SettledPage, SettledOn, KeyIsForForm
  <1> QED
    BY <1>1, CalmAlways, EditorInvariant, PTL
=============================================================================
