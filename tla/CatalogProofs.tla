--------------------------- MODULE CatalogProofs ---------------------------
(***************************************************************************)
(* Proofs about ConfigCatalog, for every set of handlers, names, options   *)
(* and requests, and any number of crashes.                                *)
(***************************************************************************)
EXTENDS CatalogProperties, TLAPS

-----------------------------------------------------------------------------
(* Lemmas about the operators of the model.                                *)

\* Merging an update into options gives options.
LEMMA UpdateType ==
    ASSUME NEW o \in Options, NEW u \in Updates
    PROVE  ApplyUpdate(o, u) \in Options
  BY DEF Options, Updates, ApplyUpdate, KeepIfBlank

\* A saved name has a row.
LEMMA SavedRow ==
    ASSUME rows \in [Names -> Row \union {NoRow}], NEW n \in Saved
    PROVE  n \in Names /\ rows[n] \in Row /\ rows[n].options \in Options
  BY CatalogAssumption DEF Saved, Row

\* Marking a row leaves a table of rows.
LEMMA WithDefaultType ==
    ASSUME rows \in [Names -> Row \union {NoRow}], NEW n \in Names
    PROVE  WithDefault(n) \in [Names -> Row \union {NoRow}]
  <1> SUFFICES ASSUME NEW m \in Names, rows[m] # NoRow
               PROVE  [rows[m] EXCEPT !.isDefault = (m = n)] \in Row
    BY DEF WithDefault
  <1>1. rows[m] \in Row
    OBVIOUS
  <1>2. (m = n) \in BOOLEAN
    OBVIOUS
  <1> QED
    BY <1>1, <1>2 DEF Row

-----------------------------------------------------------------------------
(* Type correctness.                                                       *)

\* Handler h takes a step: the others keep what they have.
StepOf(h) ==
    /\ at' \in [Handlers -> Steps]
    /\ req' \in [Handlers -> Request \union {NoRequest}]
    /\ draft' \in [Handlers -> Row \union {NoRow}]
    /\ \A g \in Handlers \ {h} : at'[g] = at[g] /\ req'[g] = req[g] /\ draft'[g] = draft[g]
    /\ UNCHANGED process

\* A step of handler h keeps the types if it does for h and the shared state.
LEMMA HandlerStepType ==
    ASSUME TypeOK, NEW h \in Handlers, StepOf(h),
           rows' \in [Names -> Row \union {NoRow}],
           activeConfigurationName' \in Names \union {NoName},
           current' \in Options,
           at'[h] # "idle" => BusyOK(h)'
    PROVE  TypeOK'
  <1> USE DEF TypeOK, StepOf
  <1>1. ASSUME NEW g \in Handlers, at'[g] # "idle"
        PROVE  BusyOK(g)'
    <2>1. CASE g = h
      BY <1>1, <2>1
    <2>2. CASE g # h
      BY <1>1, <2>2 DEF BusyOK
    <2> QED
      BY <2>1, <2>2
  <1> QED
    BY <1>1 DEF process

\* A handler that answers without changing anything keeps the types.
LEMMA RefuseType ==
    ASSUME TypeOK, NEW h \in Handlers, Refuse(h)
    PROVE  TypeOK'
  <1>1. StepOf(h) /\ at'[h] = "idle"
    BY DEF Refuse, Answer, Goto, TypeOK, StepOf, Steps
  <1> QED
    BY <1>1, HandlerStepType DEF Refuse, memory, TypeOK

\* TypeOK is an invariant of the catalog service.
THEOREM TypeCorrect == Spec => []TypeOK
  <1>1. Init => TypeOK
    BY CatalogAssumption DEF Init, TypeOK, Steps
  <1>2. TypeOK /\ [Next]_vars => TypeOK'
    <2> SUFFICES ASSUME TypeOK, [Next]_vars PROVE TypeOK'
      OBVIOUS
    <2> USE DEF TypeOK
    <2>1. CASE Boot
      <3>1. at' = at /\ req' = req /\ draft' = draft /\ crashes' = crashes
        BY <2>1 DEF Boot, Seed, MarkSeed, KeepCatalog, Load, OpenLog, OpenLogFails
      <3>2. \A h \in Handlers : BusyOK(h) => BusyOK(h)'
        BY <3>1 DEF BusyOK
      <3>3. CASE Seed
        <4>1. [options |-> Bootstrap, isDefault |-> TRUE] \in Row
          BY CatalogAssumption DEF Row
        <4> QED
          BY <3>1, <3>2, <3>3, <4>1, CatalogAssumption DEF Seed, memory
      <3>4. CASE MarkSeed
        BY <3>1, <3>2, <3>4, WithDefaultType, CatalogAssumption DEF MarkSeed, memory
      <3>5. CASE KeepCatalog
        BY <3>1, <3>2, <3>5 DEF KeepCatalog, memory
      <3>6. CASE Load
        <4>1. PICK n \in Saved : activeConfigurationName' = n /\ current' = rows[n].options
          BY <3>6 DEF Load, RestartsWith, LoadCandidates, Defaults
        <4> QED
          BY <3>1, <3>2, <3>6, <4>1, SavedRow DEF Load
      <3>7. CASE OpenLog
        BY <3>1, <3>2, <3>7 DEF OpenLog, memory
      <3>8. CASE OpenLogFails
        BY <3>1, <3>2, <3>8, CatalogAssumption DEF OpenLogFails, Exits
      <3> QED
        BY <2>1, <3>3, <3>4, <3>5, <3>6, <3>7, <3>8 DEF Boot
    <2>2. CASE Crash
      BY <2>2, CatalogAssumption DEF Crash, Exits, Steps
    <2>3. CASE UNCHANGED vars
      BY <2>3 DEF vars, BusyOK
    <2>4. ASSUME NEW h \in Handlers, Receive(h) \/ Proceed(h) \/ Abort(h)
          PROVE  TypeOK'
      <3> USE HandlerStepType, RefuseType
      <3>1. CASE Receive(h)
        <4>1. PICK r \in Requests :
                 /\ r.op = "create" => r.target # NoName
                 /\ r.op = "updateActive" => activeConfigurationName # NoName
                 /\ req' = [req EXCEPT ![h] =
                              IF r.op = "updateActive"
                              THEN [r EXCEPT !.name = activeConfigurationName] ELSE r]
                 /\ Goto(h, IF r.op = "create" THEN "vacant" ELSE "find")
          BY <3>1 DEF Receive
        <4>2. UNCHANGED <<rows, memory, process, draft>>
          BY <3>1 DEF Receive
        <4> DEFINE q == IF r.op = "updateActive"
                        THEN [r EXCEPT !.name = activeConfigurationName] ELSE r
        <4>3. q \in Request /\ (q.op = "create" => q = r)
          BY <4>1, CatalogAssumption DEF Request
        <4>4. q.op = r.op /\ req' = [req EXCEPT ![h] = q]
          BY <4>1, CatalogAssumption DEF Request
        <4> HIDE DEF q
        <4>5. StepOf(h)
          BY <4>1, <4>2, <4>3, <4>4 DEF StepOf, Goto, Steps
        <4>6. BusyOK(h)'
          BY <4>1, <4>3, <4>4, CatalogAssumption DEF BusyOK, Request, IsUpdate, Goto
        <4> QED
          BY <4>2, <4>5, <4>6 DEF memory
      <3>2. CASE Abort(h)
        BY <3>2 DEF Abort
      <3>3. CASE Proceed(h)
        <4> USE DEF Goto
        <4>1. at[h] # "idle" /\ BusyOK(h)
          <5>1. at[h] # "idle"
            BY <3>3 DEF Proceed, FindMissing, Found, FindToUpdate, FindToDuplicate,
               FindToRename, FindRefused, FindToDelete, FindToSelect, NameTaken, NameVacant,
               ResolveTemplate, TemplateMissing, Save, CheckOwner, CheckNotOwner, Apply, Move,
               MoveFails, Follow, CountOthers, GuardActive, Remove, Activate, ActivateFails,
               Publish
          <5> QED
            BY <5>1
        <4>2. CASE Refuse(h)
          BY <4>2
        <4>3. ASSUME Answer(h), UNCHANGED process
              PROVE  StepOf(h) /\ at'[h] = "idle"
          BY <4>3 DEF Answer, StepOf, Steps
        <4>4. ASSUME NEW step \in Steps, Continue(h, step), BusyOK(h)'
              PROVE  TypeOK'
          BY <4>4 DEF Continue, StepOf, memory
        <4>5. CASE FindToUpdate(h)
          <5>1. req[h].name \in Names /\ rows[req[h].name] \in Row /\ req[h].update \in Updates
            BY <4>1, <4>5, SavedRow DEF FindToUpdate, Found, BusyOK, Request
          <5>2. draft'[h] \in Row /\ draft' \in [Handlers -> Row \union {NoRow}]
            BY <4>5, <5>1, UpdateType DEF FindToUpdate, Row
          <5>3. StepOf(h) /\ BusyOK(h)'
            BY <4>1, <4>5, <5>1, <5>2 DEF FindToUpdate, Found, StepOf, BusyOK, Steps, IsUpdate
          <5> QED
            BY <4>5, <5>3 DEF FindToUpdate, memory
        <4>6. CASE FindToDuplicate(h)
          <5>1. req[h].name \in Names /\ rows[req[h].name] \in Row /\ req[h].target \in Names
            BY <4>1, <4>6, SavedRow DEF FindToDuplicate, Found, BusyOK, Request
          <5>2. draft'[h] \in Row /\ draft' \in [Handlers -> Row \union {NoRow}]
            BY <4>6, <5>1 DEF FindToDuplicate, Row
          <5>3. StepOf(h) /\ BusyOK(h)'
            BY <4>1, <4>6, <5>1, <5>2 DEF FindToDuplicate, Found, StepOf, BusyOK, Steps, IsUpdate
          <5> QED
            BY <4>6, <5>3 DEF FindToDuplicate, memory
        <4>7. CASE FindToRename(h)
          <5>1. req[h].name \in Names /\ req[h].target \in Names
            BY <4>1, <4>7, SavedRow DEF FindToRename, Found, BusyOK, Request
          <5>2. BusyOK(h)'
            BY <4>1, <4>7, <5>1 DEF FindToRename, Found, Continue, BusyOK, IsUpdate
          <5> QED
            BY <4>4, <4>7, <5>2 DEF FindToRename, Steps
        <4>8. CASE FindToDelete(h)
          <5>1. req[h].name \in Names
            BY <4>8, SavedRow DEF FindToDelete, Found
          <5>2. BusyOK(h)'
            BY <4>1, <4>8, <5>1 DEF FindToDelete, Found, Continue, BusyOK, IsUpdate
          <5> QED
            BY <4>4, <4>8, <5>2 DEF FindToDelete, Steps
        <4>9. CASE FindToSelect(h)
          <5>1. req[h].name \in Names /\ rows[req[h].name] \in Row
            BY <4>9, SavedRow DEF FindToSelect, Found
          <5>2. StepOf(h) /\ BusyOK(h)'
            BY <4>1, <4>9, <5>1 DEF FindToSelect, Found, StepOf, BusyOK, Steps, IsUpdate
          <5> QED
            BY <4>9, <5>2 DEF FindToSelect, memory
        <4>10. CASE NameVacant(h)
          <5>1. ASSUME NEW step \in {"template", "save", "move"}, Continue(h, step),
                       \/ req[h].op = "create" /\ step = "template"
                       \/ req[h].op = "duplicate" /\ step = "save"
                       \/ req[h].op = "rename" /\ step = "move"
                PROVE  BusyOK(h)'
            BY <4>1, <4>10, <5>1 DEF NameVacant, Continue, BusyOK, IsUpdate
          <5> QED
            BY <4>4, <4>10, <5>1 DEF NameVacant, Steps
        <4>11. CASE ResolveTemplate(h)
          <5> DEFINE template == IF req[h].name = NoName THEN current ELSE rows[req[h].name].options
                     o == ApplyUpdate(template, req[h].update)
          <5>1. template \in Options /\ req[h].update \in Updates
            BY <4>1, <4>11, SavedRow DEF ResolveTemplate, BusyOK, Request
          <5>2. o \in Options
            BY <5>1, UpdateType
          <5>3. draft' = [draft EXCEPT ![h] = [options |-> o, isDefault |-> FALSE]]
            BY <4>11 DEF ResolveTemplate
          <5> HIDE DEF o
          <5>4. draft'[h] \in Row /\ draft' \in [Handlers -> Row \union {NoRow}]
            BY <5>2, <5>3 DEF Row
          <5>5. StepOf(h) /\ BusyOK(h)'
            BY <4>1, <4>11, <5>3, <5>4 DEF ResolveTemplate, StepOf, BusyOK, Steps, IsUpdate
          <5> QED
            BY <4>11, <5>5 DEF ResolveTemplate, memory
        <4>12. CASE Save(h)
          <5>1. rows' \in [Names -> Row \union {NoRow}]
            BY <4>1, <4>12 DEF Save, BusyOK, IsUpdate
          <5>2. CASE IsUpdate(req[h])
            <6>1. StepOf(h) /\ BusyOK(h)'
              BY <4>1, <4>12, <5>2 DEF Save, Answer, StepOf, BusyOK, Steps, IsUpdate
            <6> QED
              BY <4>12, <5>1, <6>1 DEF Save, memory
          <5>3. CASE ~IsUpdate(req[h])
            BY <4>3, <4>12, <5>1, <5>3 DEF Save, memory
          <5> QED
            BY <5>2, <5>3
        <4>13. CASE CheckOwner(h)
          <5>1. BusyOK(h)'
            BY <4>1, <4>13 DEF CheckOwner, Continue, BusyOK, IsUpdate
          <5> QED
            BY <4>4, <4>13, <5>1 DEF CheckOwner, Steps
        <4>14. CASE Apply(h)
          <5>1. draft[h].options \in Options
            BY <4>1, <4>14 DEF Apply, BusyOK, Row, IsUpdate, Request, Ops
          <5> QED
            BY <4>3, <4>14, <5>1 DEF Apply
        <4>15. CASE Move(h)
          <5>1. req[h].name \in Names /\ req[h].target \in Names /\ rows[req[h].name] \in Row
            BY <4>1, <4>15, SavedRow DEF Move, BusyOK, IsUpdate, Request, Ops
          <5>2. rows' \in [Names -> Row \union {NoRow}]
            BY <4>15, <5>1 DEF Move
          <5>3. StepOf(h) /\ BusyOK(h)'
            BY <4>1, <4>15 DEF Move, StepOf, BusyOK, Steps, IsUpdate
          <5> QED
            BY <4>15, <5>2, <5>3 DEF Move, memory
        <4>16. CASE Follow(h)
          <5>1. req[h].target \in Names
            BY <4>1, <4>16 DEF Follow, BusyOK, IsUpdate, Request, Ops
          <5> QED
            BY <4>3, <4>16, <5>1 DEF Follow
        <4>17. CASE CountOthers(h)
          <5>1. CASE Continue(h, "guard")
            <6>1. BusyOK(h)'
              BY <4>1, <4>17, <5>1 DEF CountOthers, Continue, BusyOK, IsUpdate
            <6> QED
              BY <4>4, <5>1, <6>1 DEF Steps
          <5> QED
            BY <4>2, <4>17, <5>1 DEF CountOthers
        <4>18. CASE GuardActive(h)
          <5>1. CASE Continue(h, "remove")
            <6>1. BusyOK(h)'
              BY <4>1, <4>18, <5>1 DEF GuardActive, Continue, BusyOK, IsUpdate
            <6> QED
              BY <4>4, <5>1, <6>1 DEF Steps
          <5> QED
            BY <4>2, <4>18, <5>1 DEF GuardActive
        <4>19. CASE Remove(h)
          BY <4>3, <4>19 DEF Remove, memory
        <4>20. CASE Activate(h)
          <5>1. req[h].name \in Names
            BY <4>20, SavedRow DEF Activate
          <5>2. StepOf(h) /\ BusyOK(h)'
            BY <4>1, <4>20 DEF Activate, StepOf, BusyOK, Steps, IsUpdate
          <5> QED
            BY <4>20, <5>1, <5>2, WithDefaultType DEF Activate, memory
        <4>21. CASE Publish(h)
          <5>1. req[h].name \in Names /\ draft[h].options \in Options
            BY <4>1, <4>21 DEF Publish, BusyOK, IsUpdate, Row, Request, Ops
          <5> QED
            BY <4>3, <4>21, <5>1 DEF Publish
        <4> QED
          BY <3>3, <4>2, <4>5, <4>6, <4>7, <4>8, <4>9, <4>10, <4>11, <4>12, <4>13, <4>14,
             <4>15, <4>16, <4>17, <4>18, <4>19, <4>20, <4>21
             DEF Proceed, FindMissing, FindRefused, NameTaken, TemplateMissing, CheckNotOwner,
                 MoveFails, ActivateFails
      <3> QED
        BY <2>4, <3>1, <3>2, <3>3
    <2> QED
      BY <2>1, <2>2, <2>3, <2>4 DEF Next
  <1> QED
    BY <1>1, <1>2, PTL DEF Spec

-----------------------------------------------------------------------------
(* At most one marked row, for any number of handlers without updates.     *)

NoUpdates == \A r \in Requests : ~IsUpdate(r)

\* What a handler is about to insert is not marked.
SavesUnmarked ==
    \A h \in Handlers : at[h] # "idle" =>
        /\ ~IsUpdate(req[h])
        /\ at[h] = "vacant" /\ req[h].op = "duplicate" => ~draft[h].isDefault
        /\ at[h] = "save" => ~draft[h].isDefault

DefaultInv == TypeOK /\ AtMostOneDefault /\ SavesUnmarked

\* A table in which no row is newly marked has at most one marked row.
LEMMA NoNewDefault ==
    ASSUME AtMostOneDefault, Defaults' \subseteq Defaults
    PROVE  AtMostOneDefault'
  BY DEF AtMostOneDefault

\* AtMostOneDefault is an invariant when no request is an update.
THEOREM OneDefault == ASSUME NoUpdates PROVE Spec => []AtMostOneDefault
  <1>1. Init => AtMostOneDefault /\ SavesUnmarked
    BY DEF Init, AtMostOneDefault, SavesUnmarked, Defaults, Saved
  <1>2. DefaultInv /\ TypeOK' /\ [Next]_vars => (AtMostOneDefault /\ SavesUnmarked)'
    <2> SUFFICES ASSUME DefaultInv, TypeOK', [Next]_vars
                 PROVE  AtMostOneDefault' /\ SavesUnmarked'
      OBVIOUS
    <2> USE DEF DefaultInv
    <2>1. ASSUME UNCHANGED rows
          PROVE  AtMostOneDefault'
      <3>1. Defaults' = Defaults
        BY <2>1 DEF Defaults, Saved
      <3> QED
        BY <3>1, NoNewDefault
    <2>2. ASSUME NEW n \in Names, rows' = WithDefault(n)
          PROVE  AtMostOneDefault'
      <3>1. \A m \in Defaults' : m = n
        BY <2>2, CatalogAssumption DEF WithDefault, Defaults, Saved, TypeOK, Row
      <3> QED
        BY <3>1 DEF AtMostOneDefault
    <2>3. CASE Boot
      <3>1. SavesUnmarked'
        BY <2>3 DEF Boot, Seed, MarkSeed, KeepCatalog, Load, OpenLog, OpenLogFails,
           SavesUnmarked
      <3>2. CASE Seed
        <4>1. \A m \in Defaults' : m = SeedName
          BY <3>2 DEF Seed, Defaults, Saved, TypeOK
        <4> QED
          BY <3>1, <4>1 DEF AtMostOneDefault
      <3>3. CASE MarkSeed
        BY <2>2, <3>1, <3>3, CatalogAssumption DEF MarkSeed
      <3> QED
        BY <2>1, <2>3, <3>1, <3>2, <3>3 DEF Boot, KeepCatalog, Load, OpenLog, OpenLogFails
    <2>4. CASE Crash
      BY <2>1, <2>4 DEF Crash, SavesUnmarked
    <2>5. CASE UNCHANGED vars
      BY <2>1, <2>5 DEF vars, SavesUnmarked
    <2>6. ASSUME NEW h \in Handlers, Receive(h)
          PROVE  AtMostOneDefault' /\ SavesUnmarked'
      <3>1. PICK r \in Requests :
               /\ r.op = "create" => r.target # NoName
               /\ r.op = "updateActive" => activeConfigurationName # NoName
               /\ req' = [req EXCEPT ![h] =
                            IF r.op = "updateActive"
                            THEN [r EXCEPT !.name = activeConfigurationName] ELSE r]
               /\ Goto(h, IF r.op = "create" THEN "vacant" ELSE "find")
        BY <2>6 DEF Receive
      <3>2. UNCHANGED rows /\ UNCHANGED draft
        BY <2>6 DEF Receive
      <3>3. ~IsUpdate(r)
        BY DEF NoUpdates
      <3>4. req' = [req EXCEPT ![h] = r]
        BY <3>1, <3>3 DEF IsUpdate
      <3>5. SavesUnmarked'
        BY <3>1, <3>2, <3>3, <3>4 DEF SavesUnmarked, Goto, TypeOK
      <3> QED
        BY <2>1, <3>2, <3>5
    <2>7. ASSUME NEW h \in Handlers, Proceed(h) \/ Abort(h)
          PROVE  AtMostOneDefault' /\ SavesUnmarked'
      <3> USE DEF Goto
      <3>1. at[h] # "idle" /\ ~IsUpdate(req[h]) /\ BusyOK(h)
        <4>1. at[h] # "idle"
          BY <2>7 DEF Proceed, Abort, StoreCall, FindMissing, Found, FindToUpdate,
             FindToDuplicate, FindToRename, FindRefused, FindToDelete, FindToSelect, NameTaken,
             NameVacant, ResolveTemplate, TemplateMissing, Save, CheckOwner, CheckNotOwner,
             Apply, Move, MoveFails, Follow, CountOthers, GuardActive, Remove, Activate,
             ActivateFails, Publish
        <4> QED
          BY <4>1 DEF SavesUnmarked, TypeOK
      <3>2. ASSUME Answer(h)
            PROVE  SavesUnmarked'
        BY <3>2 DEF Answer, SavesUnmarked, TypeOK
      <3>3. ASSUME Refuse(h)
            PROVE  AtMostOneDefault' /\ SavesUnmarked'
        BY <2>1, <3>2, <3>3 DEF Refuse
      <3>4. ASSUME NEW step \in Steps, Continue(h, step),
                   step = "save" => ~draft[h].isDefault, step # "vacant" \/ req[h].op # "duplicate"
            PROVE  AtMostOneDefault' /\ SavesUnmarked'
        <4>1. SavesUnmarked'
          BY <3>1, <3>4 DEF Continue, SavesUnmarked, TypeOK
        <4> QED
          BY <2>1, <3>4, <4>1 DEF Continue
      <3>5. ~FindToUpdate(h) /\ ~CheckOwner(h) /\ ~Apply(h)
        BY <3>1 DEF FindToUpdate, CheckOwner, Apply, Found, BusyOK, IsUpdate, Request, Ops
      <3>6. CASE FindToDuplicate(h)
        <4>1. ~draft'[h].isDefault
          BY <3>6, SavedRow DEF FindToDuplicate, Found, TypeOK, Row
        <4>2. SavesUnmarked'
          BY <3>1, <3>6, <4>1 DEF FindToDuplicate, Found, SavesUnmarked, TypeOK
        <4> QED
          BY <2>1, <3>6, <4>2 DEF FindToDuplicate
      <3>7. CASE FindToRename(h) \/ FindToDelete(h)
        BY <3>4, <3>7 DEF FindToRename, FindToDelete, Found, Steps
      <3>8. CASE FindToSelect(h)
        <4>1. SavesUnmarked'
          BY <3>1, <3>8 DEF FindToSelect, SavesUnmarked, TypeOK
        <4> QED
          BY <2>1, <3>8, <4>1 DEF FindToSelect
      <3>9. CASE NameVacant(h)
        <4>1. req[h].op = "duplicate" => ~draft[h].isDefault
          BY <3>1, <3>9 DEF NameVacant, SavesUnmarked
        <4> QED
          BY <3>4, <3>9, <4>1 DEF NameVacant, Steps
      <3>10. CASE ResolveTemplate(h)
        <4>1. PICK o : draft' = [draft EXCEPT ![h] = [options |-> o, isDefault |-> FALSE]]
          BY <3>10 DEF ResolveTemplate
        <4>2. SavesUnmarked'
          BY <3>1, <3>10, <4>1 DEF ResolveTemplate, SavesUnmarked, TypeOK
        <4> QED
          BY <2>1, <3>10, <4>2 DEF ResolveTemplate
      <3>11. CASE Save(h)
        <4>1. rows' = [rows EXCEPT ![req[h].target] = draft[h]] /\ Answer(h)
          BY <3>1, <3>11 DEF Save
        <4>2. ~draft[h].isDefault
          BY <3>1, <3>11 DEF Save, SavesUnmarked
        <4>3. Defaults' \subseteq Defaults
          BY <4>1, <4>2 DEF Defaults, Saved, TypeOK
        <4> QED
          BY <3>2, <4>1, <4>3, NoNewDefault
      <3>12. CASE Move(h)
        <4>1. SavesUnmarked'
          BY <3>1, <3>12 DEF Move, SavesUnmarked, TypeOK
        <4>2. AtMostOneDefault'
          BY <3>1, <3>12 DEF Move, AtMostOneDefault, Defaults, Saved, TypeOK, BusyOK, IsUpdate
        <4> QED
          BY <4>1, <4>2
      <3>13. CASE Follow(h)
        BY <2>1, <3>2, <3>13 DEF Follow
      <3>14. CASE CountOthers(h)
        BY <3>3, <3>4, <3>14 DEF CountOthers, Steps
      <3>15. CASE GuardActive(h)
        BY <3>3, <3>4, <3>15 DEF GuardActive, Steps
      <3>16. CASE Remove(h)
        <4>1. Defaults' \subseteq Defaults
          BY <3>16 DEF Remove, Defaults, Saved, TypeOK
        <4> QED
          BY <3>2, <3>16, <4>1, NoNewDefault DEF Remove
      <3>17. CASE Activate(h)
        <4>1. SavesUnmarked'
          BY <3>1, <3>17 DEF Activate, SavesUnmarked, TypeOK
        <4> QED
          BY <2>2, <3>17, <4>1 DEF Activate, Saved
      <3>18. CASE Publish(h)
        BY <2>1, <3>2, <3>18 DEF Publish
      <3> QED
        BY <2>7, <3>3, <3>5, <3>6, <3>7, <3>8, <3>9, <3>10, <3>11, <3>12, <3>13, <3>14,
           <3>15, <3>16, <3>17, <3>18
           DEF Proceed, Abort, FindMissing, FindRefused, NameTaken, TemplateMissing,
               CheckNotOwner, MoveFails, ActivateFails
    <2> QED
      BY <2>3, <2>4, <2>5, <2>6, <2>7 DEF Next
  <1> QED
    BY <1>1, <1>2, TypeCorrect, PTL DEF Spec, DefaultInv

-----------------------------------------------------------------------------
(* Selections and creations: the settings in force are those of the active *)
(* configuration.                                                          *)

\* Requests select configurations, or create them with all their options; those
\* that create the same one give it the same options, F.
SelectionsAndCreations(F) ==
    \A r \in Requests :
        /\ r.op \in {"select", "create"}
        /\ r.op = "create" /\ r.target \in Names =>
             \A o \in Options : ApplyUpdate(o, r.update) = F[r.target]

\* The options a configuration has from its creation on.
GivenOptions(F, n) == IF n = SeedName THEN Bootstrap ELSE F[n]

\* What a handler is about to write, or to put in force.
GivenInv(F, h) ==
    /\ at[h] # "idle" => phase = "serving" /\ req[h] \in Requests
    /\ at[h] \in {"template", "save"} => req[h].target # SeedName
    /\ at[h] = "save" => draft[h].options = GivenOptions(F, req[h].target)
    /\ at[h] \in {"activate", "publish"} =>
         draft[h].options = GivenOptions(F, req[h].name)

\* The seed's row is there before any handler runs and never goes, so nobody
\* gets to create that configuration again.
SelectionInv(F) ==
    /\ phase # "stopped" \/ Saved # {} => SeedName \in Saved
    /\ \A n \in Saved : rows[n].options = GivenOptions(F, n)
    /\ phase \in {"opening", "serving"} =>
         current = GivenOptions(F, activeConfigurationName)
    /\ \A h \in Handlers : GivenInv(F, h)

\* SettingsMatchName is an invariant, for any number of handlers, as long as
\* requests select configurations and create them.
THEOREM SettingsOfActive ==
    ASSUME NEW F \in [Names -> Options], SelectionsAndCreations(F)
    PROVE  Spec => []SettingsMatchName
  <1>1. Init => SelectionInv(F)
    BY DEF Init, SelectionInv, GivenInv, Saved
  <1>2. TypeOK /\ TypeOK' /\ SelectionInv(F) /\ [Next]_vars => SelectionInv(F)'
    <2> SUFFICES ASSUME TypeOK, TypeOK', SelectionInv(F), [Next]_vars
                 PROVE  SelectionInv(F)'
      OBVIOUS
    <2> USE DEF TypeOK, Goto
    <2>1. ASSUME UNCHANGED rows
          PROVE  Saved' = Saved
      BY <2>1 DEF Saved
    \* Marking a row neither adds one nor changes the options of any.
    <2>2. ASSUME NEW n \in Names, rows' = WithDefault(n)
          PROVE  Saved' = Saved /\ \A m \in Saved : rows'[m].options = rows[m].options
      <3>1. \A m \in Names : rows[m] # NoRow =>
              rows'[m] \in Row /\ rows'[m].options = rows[m].options
        <4> SUFFICES ASSUME NEW m \in Names, rows[m] # NoRow
                     PROVE  rows'[m] \in Row /\ rows'[m].options = rows[m].options
          OBVIOUS
        <4>1. rows[m] \in Row
          OBVIOUS
        <4>2. rows'[m] = [rows[m] EXCEPT !.isDefault = (m = n)]
          BY <2>2 DEF WithDefault
        <4> QED
          BY <4>1, <4>2 DEF Row
      <3>2. \A m \in Names : rows[m] = NoRow => rows'[m] = NoRow
        BY <2>2 DEF WithDefault
      <3> QED
        BY <3>1, <3>2, CatalogAssumption DEF Saved
    <2>3. CASE Boot
      <3>1. UNCHANGED <<at, req, draft>> /\ phase # "serving"
        BY <2>3 DEF Boot, Seed, MarkSeed, KeepCatalog, Load, OpenLog, OpenLogFails
      <3>2. \A h \in Handlers : GivenInv(F, h)'
        BY <3>1 DEF SelectionInv, GivenInv
      <3>3. CASE Seed
        <4>1. [options |-> Bootstrap, isDefault |-> TRUE] \in Row
          BY CatalogAssumption DEF Row
        <4>2. rows'[SeedName] # NoRow /\ rows'[SeedName].options = Bootstrap
          BY <3>3, <4>1, CatalogAssumption DEF Seed
        <4>3. \A n \in Names \ {SeedName} : rows'[n] = NoRow
          BY <3>3 DEF Seed, Saved
        <4>4. Saved' = {SeedName}
          BY <4>2, <4>3, CatalogAssumption DEF Saved
        <4> QED
          BY <3>2, <3>3, <4>2, <4>4 DEF Seed, SelectionInv, GivenOptions
      <3>4. CASE MarkSeed
        BY <2>2, <3>2, <3>4, CatalogAssumption DEF MarkSeed, SelectionInv
      <3>5. CASE KeepCatalog
        BY <2>1, <3>2, <3>5 DEF KeepCatalog, SelectionInv
      <3>6. CASE Load
        <4>1. LoadCandidates \subseteq Saved
          BY DEF LoadCandidates, Defaults
        <4>2. current' = GivenOptions(F, activeConfigurationName')
          BY <3>6, <4>1 DEF Load, RestartsWith, SelectionInv
        <4> QED
          BY <2>1, <3>2, <3>6, <4>2 DEF Load, SelectionInv, GivenOptions
      <3>7. CASE OpenLog
        BY <2>1, <3>2, <3>7 DEF OpenLog, memory, SelectionInv, GivenOptions
      <3>8. CASE OpenLogFails
        BY <2>1, <3>2, <3>8 DEF OpenLogFails, Exits, SelectionInv
      <3> QED
        BY <2>3, <3>3, <3>4, <3>5, <3>6, <3>7, <3>8 DEF Boot
    <2>4. CASE Crash
      <3>1. \A h \in Handlers : GivenInv(F, h)'
        BY <2>4 DEF Crash, GivenInv
      <3> QED
        BY <2>1, <2>4, <3>1 DEF Crash, Exits, SelectionInv
    <2>5. CASE UNCHANGED vars
      <3>1. \A h \in Handlers : GivenInv(F, h)'
        BY <2>5 DEF vars, SelectionInv, GivenInv
      <3> QED
        BY <2>1, <2>5, <3>1 DEF vars, SelectionInv, GivenOptions
    <2> SUFFICES ASSUME NEW h \in Handlers, Receive(h) \/ Proceed(h) \/ Abort(h)
                 PROVE  SelectionInv(F)'
      BY <2>3, <2>4, <2>5 DEF Next
    <2>6. GivenInv(F, h) /\ (at[h] # "idle" => req[h].op \in {"select", "create"} /\ BusyOK(h))
      BY DEF SelectionInv, GivenInv, SelectionsAndCreations
    <2>7. phase = "serving" /\ UNCHANGED process
      <3>1. CASE Receive(h)
        BY <3>1 DEF Receive, process
      <3>2. CASE Proceed(h) \/ Abort(h)
        <4>1. at[h] # "idle" /\ UNCHANGED process
          BY <3>2 DEF Proceed, Abort, StoreCall, FindMissing, Found, FindToUpdate,
             FindToDuplicate, FindToRename, FindRefused, FindToDelete, FindToSelect, NameTaken,
             NameVacant, ResolveTemplate, TemplateMissing, Save, CheckOwner, CheckNotOwner,
             Apply, Move, MoveFails, Follow, CountOthers, GuardActive, Remove, Activate,
             ActivateFails, Publish, Refuse, Continue
        <4> QED
          BY <2>6, <4>1 DEF GivenInv
      <3> QED
        BY <3>1, <3>2
    \* What h writes leaves the other handlers alone.
    <2>8. ASSUME GivenInv(F, h)',
                 \A g \in Handlers \ {h} :
                   at'[g] = at[g] /\ req'[g] = req[g] /\ draft'[g] = draft[g]
          PROVE  \A g \in Handlers : GivenInv(F, g)'
      BY <2>7, <2>8 DEF SelectionInv, GivenInv, GivenOptions, process
    <2>9. ASSUME UNCHANGED <<rows, memory>>, \A g \in Handlers : GivenInv(F, g)'
          PROVE  SelectionInv(F)'
      BY <2>1, <2>7, <2>9 DEF SelectionInv, GivenOptions, memory, process
    <2>10. ASSUME Answer(h)
           PROVE  \A g \in Handlers : GivenInv(F, g)'
      <3>1. GivenInv(F, h)'
        BY <2>10 DEF Answer, GivenInv
      <3> QED
        BY <2>8, <2>10, <3>1 DEF Answer
    <2>11. CASE Refuse(h)
      BY <2>9, <2>10, <2>11 DEF Refuse
    <2>12. CASE Receive(h)
      <3>1. PICK r \in Requests :
              /\ req' = [req EXCEPT ![h] =
                           IF r.op = "updateActive"
                           THEN [r EXCEPT !.name = activeConfigurationName] ELSE r]
              /\ Goto(h, IF r.op = "create" THEN "vacant" ELSE "find")
        BY <2>12 DEF Receive
      <3>2. req' = [req EXCEPT ![h] = r]
        BY <3>1 DEF SelectionsAndCreations
      <3>3. at'[h] \in {"vacant", "find"} /\ req'[h] = r
        BY <3>1, <3>2
      <3>4. GivenInv(F, h)'
        BY <2>7, <3>3 DEF GivenInv, process
      <3> QED
        BY <2>8, <2>9, <2>12, <3>1, <3>2, <3>4 DEF Receive
    <2>13. CASE NameVacant(h)
      <3>1. at[h] = "vacant" /\ req[h].target \notin Saved /\ Continue(h, "template")
        BY <2>6, <2>13 DEF NameVacant, BusyOK
      <3>2. req[h].target # SeedName
        BY <2>7, <3>1 DEF SelectionInv
      <3>3. GivenInv(F, h)'
        BY <2>6, <2>7, <3>1, <3>2 DEF Continue, GivenInv, process
      <3> QED
        BY <2>8, <2>9, <3>1, <3>3 DEF Continue
    <2>14. CASE ResolveTemplate(h)
      <3> DEFINE template == IF req[h].name = NoName THEN current ELSE rows[req[h].name].options
      <3>1. /\ at[h] = "template" /\ at'[h] = "save" /\ UNCHANGED <<rows, memory, req>>
            /\ draft' = [draft EXCEPT ![h] = [options |-> ApplyUpdate(template, req[h].update),
                                              isDefault |-> FALSE]]
        BY <2>14 DEF ResolveTemplate
      <3>2. template \in Options
        BY <2>14, SavedRow DEF ResolveTemplate
      <3>3. req[h].op = "create" /\ req[h].target \in Names \ {SeedName} /\ req[h] \in Requests
        BY <2>6, <3>1 DEF GivenInv, BusyOK
      <3>4. ApplyUpdate(template, req[h].update) = F[req[h].target]
        BY <3>2, <3>3 DEF SelectionsAndCreations
      <3>5. draft'[h].options = GivenOptions(F, req[h].target)
        BY <3>1, <3>3, <3>4 DEF GivenOptions
      <3>6. GivenInv(F, h)'
        BY <2>7, <3>1, <3>3, <3>5 DEF GivenInv, GivenOptions, process
      <3> QED
        BY <2>8, <2>9, <2>14, <3>1, <3>6 DEF ResolveTemplate
    <2>15. CASE Save(h)
      <3>1. at[h] = "save" /\ req[h].op = "create" /\ ~IsUpdate(req[h])
        BY <2>6, <2>15 DEF Save, BusyOK, IsUpdate
      <3>2. /\ rows' = [rows EXCEPT ![req[h].target] = draft[h]]
            /\ Answer(h) /\ UNCHANGED memory
        BY <2>15, <3>1 DEF Save
      <3>3. /\ req[h].target \in Names /\ draft[h] \in Row
            /\ draft[h].options = GivenOptions(F, req[h].target)
        BY <2>6, <3>1 DEF GivenInv, BusyOK
      <3>4. Saved' = Saved \union {req[h].target}
        BY <3>2, <3>3, CatalogAssumption DEF Saved
      <3>5. \A n \in Saved' : rows'[n].options = GivenOptions(F, n)
        BY <3>2, <3>3, <3>4 DEF SelectionInv
      <3> QED
        BY <2>7, <2>10, <3>2, <3>4, <3>5 DEF SelectionInv, GivenOptions, memory, process
    <2>16. CASE FindToSelect(h)
      <3>1. /\ at'[h] = "activate" /\ at[h] = "find" /\ UNCHANGED <<rows, memory, req>>
            /\ req[h].name \in Saved /\ draft'[h] = rows[req[h].name]
        BY <2>16, SavedRow DEF FindToSelect, Found
      <3>2. draft'[h].options = GivenOptions(F, req[h].name)
        BY <3>1 DEF SelectionInv
      <3>3. GivenInv(F, h)'
        BY <2>6, <2>7, <3>1, <3>2 DEF GivenInv, GivenOptions, process
      <3> QED
        BY <2>8, <2>9, <2>16, <3>1, <3>3 DEF FindToSelect
    <2>17. CASE Activate(h)
      <3>1. /\ at[h] = "activate" /\ at'[h] = "publish" /\ UNCHANGED <<memory, req, draft>>
            /\ req[h].name \in Names /\ rows' = WithDefault(req[h].name)
        BY <2>17 DEF Activate, Saved
      <3>2. GivenInv(F, h)'
        BY <2>6, <2>7, <3>1 DEF GivenInv, GivenOptions, process
      <3>3. \A g \in Handlers : GivenInv(F, g)'
        BY <2>8, <2>17, <3>2 DEF Activate
      <3> QED
        BY <2>2, <2>7, <3>1, <3>3 DEF SelectionInv, GivenOptions, memory, process
    <2>18. CASE Publish(h)
      <3>1. /\ Answer(h) /\ rows' = rows
            /\ activeConfigurationName' = req[h].name
            /\ current' = GivenOptions(F, req[h].name)
        BY <2>6, <2>18 DEF Publish, GivenInv
      <3> QED
        BY <2>1, <2>7, <2>10, <3>1 DEF SelectionInv, GivenOptions, process
    \* Nothing else is asked for.
    <2>19. CASE \/ FindToUpdate(h) \/ FindToDuplicate(h) \/ FindToRename(h) \/ FindToDelete(h)
                \/ CheckOwner(h) \/ CheckNotOwner(h) \/ Apply(h) \/ Move(h) \/ MoveFails(h)
                \/ Follow(h) \/ CountOthers(h) \/ GuardActive(h) \/ Remove(h)
      BY <2>6, <2>19 DEF BusyOK, Found, FindToUpdate, FindToDuplicate, FindToRename,
         FindToDelete, CheckOwner, CheckNotOwner, Apply, Move, MoveFails, Follow, CountOthers,
         GuardActive, Remove, IsUpdate
    <2>20. CASE FindMissing(h) \/ FindRefused(h) \/ NameTaken(h) \/ TemplateMissing(h)
                \/ ActivateFails(h) \/ Abort(h)
      BY <2>11, <2>20 DEF FindMissing, FindRefused, NameTaken, TemplateMissing, ActivateFails,
         Abort
    <2> HIDE DEF TypeOK, Goto
    <2> QED
      BY <2>12, <2>13, <2>14, <2>15, <2>16, <2>17, <2>18, <2>19, <2>20 DEF Proceed
  <1>3. SelectionInv(F) => SettingsMatchName
    BY DEF SelectionInv, SettingsMatchName
  <1> QED
    BY <1>1, <1>2, <1>3, TypeCorrect, PTL DEF Spec

-----------------------------------------------------------------------------
(* One request at a time: memory and SQLite agree between requests.        *)

OneAtATime == \A g, h \in Handlers : g = h

\* Names that NOCASE tells apart differ under OrdinalIgnoreCase as well, as
\* names of ASCII letters do.
NamesFaithful == \A m, n \in Names : SameName(m, n) => m = n

\* SQLite has marked n, and the settings in force are its options.
InForce(n) == OnlyDefault(n) /\ current = rows[n].options

\* What the one handler relies on at each step.  Between a write to SQLite and
\* the write to memory that follows it, its locals say what memory will be.
HandlerInv(h) ==
    /\ at[h] \notin {"owner", "apply", "follow", "publish"} => Coherent
    /\ at[h] = "vacant" /\ req[h].op = "duplicate" => ~draft[h].isDefault
    /\ at[h] \in {"template", "move"} => req[h].target \notin Saved
    /\ at[h] = "save" /\ ~IsUpdate(req[h]) => req[h].target \notin Saved /\ ~draft[h].isDefault
    /\ at[h] = "save" /\ IsUpdate(req[h]) =>
         req[h].name \in Saved /\ draft[h].isDefault = rows[req[h].name].isDefault
    /\ at[h] \in {"owner", "apply"} =>
         /\ OnlyDefault(activeConfigurationName)
         /\ rows[req[h].name] = draft[h]
         /\ req[h].name # activeConfigurationName => Coherent
    /\ at[h] = "apply" => req[h].name = activeConfigurationName
    /\ at[h] = "follow" =>
         InForce(IF activeConfigurationName = req[h].name THEN req[h].target
                 ELSE activeConfigurationName)
    /\ at[h] = "remove" => req[h].name # activeConfigurationName
    /\ at[h] = "activate" => draft[h] = rows[req[h].name]
    /\ at[h] = "publish" =>
         OnlyDefault(req[h].name) /\ draft[h].options = rows[req[h].name].options

SequentialInv ==
    /\ phase # "serving" => Idle
    /\ phase = "stopped" => Saved = {} \/ \E n \in Names : OnlyDefault(n)
    /\ phase = "seeding" => OnlyDefault(SeedName)
    /\ phase = "loading" => \E n \in Names : OnlyDefault(n)
    /\ phase = "opening" => Coherent
    /\ phase = "serving" => /\ Idle => Coherent
                            /\ \A h \in Handlers : HandlerInv(h)

\* The marked row, told row by row.
LEMMA OnlyDefaultByRow ==
    ASSUME NEW n
    PROVE  OnlyDefault(n) <=>
             /\ n \in Names
             /\ rows[n] # NoRow
             /\ rows[n].isDefault
             /\ \A m \in Names : rows[m] # NoRow /\ rows[m].isDefault => m = n
  <1>1. OnlyDefault(n) <=> n \in Names /\ n \in Defaults /\ \A m \in Defaults : m = n
    BY DEF OnlyDefault
  <1> QED
    BY <1>1 DEF Defaults, Saved

LEMMA OnlyDefaultByRowNext ==
    ASSUME NEW n
    PROVE  OnlyDefault(n)' <=>
             /\ n \in Names
             /\ rows'[n] # NoRow
             /\ rows'[n].isDefault
             /\ \A m \in Names : rows'[m] # NoRow /\ rows'[m].isDefault => m = n
  <1>1. OnlyDefault(n)' <=> n \in Names /\ n \in Defaults' /\ \A m \in Defaults' : m = n
    BY DEF OnlyDefault
  <1> QED
    BY <1>1 DEF Defaults, Saved

\* SequentialInv is kept when requests come one at a time and names mean the
\* same to SQLite and to the service.
LEMMA SequentialAlways ==
    ASSUME OneAtATime, NamesFaithful
    PROVE  Spec => []SequentialInv
  <1>1. Init => SequentialInv
    BY DEF Init, SequentialInv, Idle, Saved
  <1>2. TypeOK /\ TypeOK' /\ SequentialInv /\ [Next]_vars => SequentialInv'
    <2> SUFFICES ASSUME TypeOK, TypeOK', SequentialInv, [Next]_vars
                 PROVE  SequentialInv'
      OBVIOUS
    <2>1. ASSUME UNCHANGED rows
          PROVE  /\ Saved' = Saved
                 /\ Defaults' = Defaults
                 /\ \A n : OnlyDefault(n)' <=> OnlyDefault(n)
      BY <2>1 DEF OnlyDefault, Defaults, Saved
    <2>2. ASSUME UNCHANGED <<rows, memory>>
          PROVE  Coherent' <=> Coherent
      BY <2>2 DEF Coherent, OnlyDefault, Defaults, Saved, memory
    <2>3. ASSUME NEW n \in Saved, rows' = WithDefault(n)
          PROVE  OnlyDefault(n)' /\ rows'[n].options = rows[n].options
      <3>1. n \in Names /\ rows[n] \in Row /\ rows[n] # NoRow
        BY SavedRow DEF TypeOK, Saved
      <3>2. rows'[n] # NoRow /\ rows'[n].isDefault /\ rows'[n].options = rows[n].options
        BY <2>3, <3>1, CatalogAssumption DEF WithDefault, Row, TypeOK
      <3>3. \A m \in Names : rows'[m] # NoRow /\ rows'[m].isDefault => m = n
        BY <2>3 DEF WithDefault, Row, TypeOK
      <3> QED
        BY <3>1, <3>2, <3>3, OnlyDefaultByRowNext
    <2>4. CASE Boot
      <3>1. phase # "serving" /\ Idle /\ Idle'
        BY <2>4 DEF Boot, Seed, MarkSeed, KeepCatalog, Load, OpenLog, OpenLogFails,
           SequentialInv, Idle
      <3>2. CASE Seed
        <4>0. [options |-> Bootstrap, isDefault |-> TRUE] \in Row
          BY CatalogAssumption DEF Row
        <4>1. rows'[SeedName].isDefault /\ rows'[SeedName] # NoRow
          BY <3>2, <4>0, CatalogAssumption DEF Seed, TypeOK
        <4>2. \A m \in Names : rows'[m] # NoRow /\ rows'[m].isDefault => m = SeedName
          BY <3>2 DEF Seed, TypeOK, Saved
        <4>3. OnlyDefault(SeedName)'
          BY <4>1, <4>2, OnlyDefaultByRowNext, CatalogAssumption
        <4>4. phase' = "seeding"
          BY <3>2 DEF Seed
        <4> QED
          BY <3>1, <4>3, <4>4 DEF SequentialInv
      <3>3. CASE MarkSeed
        <4>1. SeedName \in Saved
          BY <3>3 DEF MarkSeed, SequentialInv, OnlyDefault, Defaults
        <4>2. OnlyDefault(SeedName)'
          BY <2>3, <3>3, <4>1 DEF MarkSeed
        <4> QED
          BY <3>1, <3>3, <4>2, CatalogAssumption DEF MarkSeed, SequentialInv
      <3>4. CASE KeepCatalog
        <4>1. \E n \in Names : OnlyDefault(n)
          BY <3>4 DEF KeepCatalog, SequentialInv
        <4> QED
          BY <2>1, <3>1, <3>4, <4>1 DEF KeepCatalog, SequentialInv
      <3>5. CASE Load
        <4>1. PICK n \in Names : OnlyDefault(n)
          BY <3>5 DEF Load, SequentialInv
        <4>2. LoadCandidates = {n}
          BY <4>1 DEF LoadCandidates, OnlyDefault
        <4>3. activeConfigurationName' = n /\ current' = rows[n].options /\ rows' = rows
          BY <3>5, <4>2 DEF Load, RestartsWith
        <4>4. Coherent'
          BY <2>1, <4>1, <4>3 DEF Coherent, OnlyDefault
        <4> QED
          BY <3>1, <3>5, <4>4 DEF Load, SequentialInv
      <3>6. CASE OpenLog
        <4>1. UNCHANGED <<rows, memory>> /\ phase' = "serving" /\ Coherent
          BY <3>6 DEF OpenLog, SequentialInv
        <4>2. Coherent' /\ \A h \in Handlers : at'[h] = "idle"
          BY <2>2, <3>1, <4>1 DEF Idle
        <4> QED
          BY <3>1, <4>1, <4>2 DEF SequentialInv, HandlerInv
      <3>7. CASE OpenLogFails
        <4>1. rows' = rows /\ phase' = "stopped" /\ \E n \in Names : OnlyDefault(n)
          BY <3>7 DEF OpenLogFails, Exits, SequentialInv, Coherent, OnlyDefault
        <4> QED
          BY <2>1, <3>1, <4>1 DEF SequentialInv
      <3> QED
        BY <2>4, <3>2, <3>3, <3>4, <3>5, <3>6, <3>7 DEF Boot
    <2>5. CASE Crash
      <3>1. Idle' /\ phase' = "stopped" /\ rows' = rows
        BY <2>5 DEF Crash, Exits, Idle
      <3>2. \E n \in Names : OnlyDefault(n)
        <4>1. CASE phase # "serving"
          BY <2>5, <4>1, CatalogAssumption
             DEF Crash, SequentialInv, TypeOK, Coherent, OnlyDefault
        <4>2. CASE phase = "serving" /\ Idle
          BY <4>2 DEF SequentialInv, Coherent, OnlyDefault
        <4>3. CASE phase = "serving" /\ ~Idle
          <5>1. PICK h \in Handlers : HandlerInv(h)
            BY <4>3 DEF SequentialInv, Idle
          <5>2. Coherent \/ OnlyDefault(activeConfigurationName) \/ OnlyDefault(req[h].name)
                \/ OnlyDefault(req[h].target)
            BY <5>1 DEF HandlerInv, InForce
          <5> QED
            BY <5>2 DEF Coherent, OnlyDefault
        <4> QED
          BY <4>1, <4>2, <4>3
      <3>3. \E n \in Names : OnlyDefault(n)'
        BY <2>1, <3>1, <3>2
      <3> QED
        BY <3>1, <3>3 DEF SequentialInv
    <2>6. CASE UNCHANGED vars
      <3>1. UNCHANGED <<rows, memory>> /\ UNCHANGED <<current, activeConfigurationName>>
        BY <2>6 DEF vars, memory
      <3>2. UNCHANGED <<phase, at, req, draft>>
        BY <2>6 DEF vars
      <3>3. \A h \in Handlers : HandlerInv(h) => HandlerInv(h)'
        BY <2>1, <2>2, <3>1, <3>2 DEF HandlerInv, InForce
      <3> QED
        BY <2>1, <2>2, <3>1, <3>2, <3>3 DEF SequentialInv, Idle
    <2> SUFFICES ASSUME NEW h \in Handlers, Receive(h) \/ Proceed(h) \/ Abort(h)
                 PROVE  SequentialInv'
      BY <2>4, <2>5, <2>6 DEF Next
    <2>7. phase = "serving" /\ phase' = "serving" /\ HandlerInv(h)
      <3>1. CASE Receive(h)
        BY <3>1 DEF Receive, SequentialInv, process
      <3>2. CASE Proceed(h) \/ Abort(h)
        <4>1. at[h] # "idle" /\ UNCHANGED process
          BY <3>2 DEF Proceed, Abort, StoreCall, FindMissing, Found, FindToUpdate,
             FindToDuplicate, FindToRename, FindRefused, FindToDelete, FindToSelect, NameTaken,
             NameVacant, ResolveTemplate, TemplateMissing, Save, CheckOwner, CheckNotOwner,
             Apply, Move, MoveFails, Follow, CountOthers, GuardActive, Remove, Activate,
             ActivateFails, Publish, Refuse, Continue
        <4> QED
          BY <4>1 DEF SequentialInv, Idle, process
      <3> QED
        BY <3>1, <3>2
    \* h is the only handler there is.
    <2>8. ASSUME HandlerInv(h)'
          PROVE  SequentialInv'
      <3>1. Idle' => Coherent'
        BY <2>8 DEF HandlerInv, Idle
      <3>2. \A g \in Handlers : HandlerInv(g)'
        BY <2>8 DEF OneAtATime
      <3> QED
        BY <2>7, <3>1, <3>2 DEF SequentialInv
    <2>9. ASSUME Answer(h), Coherent'
          PROVE  SequentialInv'
      <3>1. at'[h] = "idle"
        BY <2>9 DEF Answer, Goto, TypeOK
      <3>2. HandlerInv(h)'
        BY <2>9, <3>1 DEF HandlerInv
      <3> QED
        BY <2>8, <3>2
    <2>10. at[h] \notin {"owner", "apply", "follow", "publish"} => Coherent
      BY <2>7 DEF HandlerInv
    <2>11. ASSUME Refuse(h), Coherent
           PROVE  SequentialInv'
      BY <2>2, <2>9, <2>11 DEF Refuse
    <2>12. CASE Receive(h)
      <3>1. at'[h] \in {"vacant", "find"} /\ UNCHANGED <<rows, memory>>
        BY <2>12 DEF Receive, Goto, TypeOK
      <3>2. at'[h] = "vacant" => req'[h].op = "create"
        <4>1. PICK r \in Requests :
                 /\ r.op = "create" => r.target # NoName
                 /\ r.op = "updateActive" => activeConfigurationName # NoName
                 /\ req' = [req EXCEPT ![h] =
                              IF r.op = "updateActive"
                              THEN [r EXCEPT !.name = activeConfigurationName] ELSE r]
                 /\ Goto(h, IF r.op = "create" THEN "vacant" ELSE "find")
          BY <2>12 DEF Receive
        <4>2. CASE r.op = "create"
          BY <4>1, <4>2 DEF TypeOK
        <4>3. CASE r.op # "create"
          BY <4>1, <4>3 DEF Goto, TypeOK
        <4> QED
          BY <4>2, <4>3
      <3>3. Coherent'
        BY <2>2, <2>10, <2>12, <3>1 DEF Receive
      <3>4. HandlerInv(h)'
        BY <3>1, <3>2, <3>3 DEF HandlerInv
      <3> QED
        BY <2>8, <3>4
    <2>13. CASE Abort(h)
      BY <2>10, <2>11, <2>13 DEF Abort, StoreCall
    <2>14. CASE Proceed(h)
      <3> USE DEF Goto
      <3>1. at[h] # "idle" => BusyOK(h)
        BY DEF TypeOK
      <3>2. CASE Refuse(h) /\ Coherent
        BY <2>11, <3>2
      \* A step that moves on without writing rows or memory.
      <3>3. ASSUME NEW step \in Steps, Continue(h, step), Coherent,
                   step \in {"vacant", "template", "save", "move", "count", "guard", "remove"},
                   step \in {"template", "save", "move"} => req[h].target \notin Saved,
                   req[h].op = "duplicate" => ~draft[h].isDefault,
                   step = "save" => req[h].op = "duplicate",
                   step = "remove" => req[h].name # activeConfigurationName
            PROVE  SequentialInv'
        <4>1. Coherent' /\ Saved' = Saved /\ UNCHANGED <<req, draft, activeConfigurationName>>
          BY <2>1, <2>2, <3>3 DEF Continue, memory
        <4>2. at'[h] = step
          BY <3>3 DEF Continue, TypeOK
        <4>3. HandlerInv(h)'
          BY <3>3, <4>1, <4>2 DEF HandlerInv, IsUpdate
        <4> QED
          BY <2>8, <4>3
      <3>4. CASE FindToUpdate(h)
        <4>1. /\ at[h] = "find" /\ at'[h] = "save" /\ IsUpdate(req[h])
              /\ req[h].name \in Saved /\ req' = req
              /\ UNCHANGED <<rows, memory>>
          BY <3>4 DEF FindToUpdate, Found, TypeOK, IsUpdate
        <4>2. draft'[h].isDefault = rows[req[h].name].isDefault
          BY <3>4, <4>1, SavedRow DEF FindToUpdate, TypeOK, Row
        <4>3. Coherent' /\ Saved' = Saved
          BY <2>1, <2>2, <2>10, <4>1
        <4>4. HandlerInv(h)'
          BY <4>1, <4>2, <4>3 DEF HandlerInv, IsUpdate
        <4> QED
          BY <2>8, <4>4
      <3>5. CASE FindToDuplicate(h)
        <4>1. at[h] = "find" /\ at'[h] = "vacant" /\ UNCHANGED <<rows, memory>>
          BY <3>5 DEF FindToDuplicate, Found, TypeOK
        <4>2. ~draft'[h].isDefault
          BY <3>5, SavedRow DEF FindToDuplicate, Found, TypeOK, Row
        <4>3. HandlerInv(h)'
          BY <2>2, <2>10, <4>1, <4>2 DEF HandlerInv
        <4> QED
          BY <2>8, <4>3
      <3>6. CASE FindToRename(h) \/ FindToDelete(h)
        BY <2>10, <3>3, <3>6 DEF FindToRename, FindToDelete, Found, Steps
      <3>7. CASE FindToSelect(h)
        <4>1. at[h] = "find" /\ at'[h] = "activate" /\ UNCHANGED <<rows, memory, req>>
          BY <3>7 DEF FindToSelect, Found, TypeOK
        <4>2. draft'[h] = rows[req[h].name]
          BY <3>7 DEF FindToSelect, TypeOK
        <4>3. HandlerInv(h)'
          BY <2>2, <2>10, <4>1, <4>2 DEF HandlerInv
        <4> QED
          BY <2>8, <4>3
      <3>8. CASE NameVacant(h)
        <4>1. at[h] = "vacant" /\ req[h].target \notin Saved
          BY <3>8 DEF NameVacant
        <4>2. req[h].op = "duplicate" => ~draft[h].isDefault
          BY <2>7, <4>1 DEF HandlerInv
        <4> QED
          BY <2>10, <3>3, <3>8, <4>1, <4>2 DEF NameVacant, Steps
      <3>9. CASE ResolveTemplate(h)
        <4>1. PICK o : draft' = [draft EXCEPT ![h] = [options |-> o, isDefault |-> FALSE]]
          BY <3>9 DEF ResolveTemplate
        <4>2. /\ at[h] = "template" /\ at'[h] = "save" /\ req' = req
              /\ UNCHANGED <<rows, memory>>
          BY <3>9 DEF ResolveTemplate, TypeOK
        <4>3. req[h].op = "create" /\ req[h].target \notin Saved
          BY <2>7, <3>1, <4>2 DEF HandlerInv, BusyOK, IsUpdate, Request, Ops
        <4>4. ~draft'[h].isDefault
          BY <4>1 DEF TypeOK
        <4>5. Coherent' /\ Saved' = Saved
          BY <2>1, <2>2, <2>10, <4>2
        <4>6. HandlerInv(h)'
          BY <4>2, <4>3, <4>4, <4>5 DEF HandlerInv, IsUpdate
        <4> QED
          BY <2>8, <4>6
      <3>10. CASE Save(h) /\ ~IsUpdate(req[h])
        <4>1. at[h] = "save" /\ Answer(h) /\ UNCHANGED memory
          BY <3>10 DEF Save
        <4>2. rows' = [rows EXCEPT ![req[h].target] = draft[h]]
          BY <3>10 DEF Save
        <4>3. ~draft[h].isDefault /\ req[h].target \notin Saved
          BY <2>7, <3>10, <4>1 DEF HandlerInv
        <4>4. PICK a \in Names : a = activeConfigurationName /\ OnlyDefault(a)
          BY <2>10, <4>1 DEF Coherent, OnlyDefault
        <4>5. rows[a] # NoRow /\ a # req[h].target
          BY <4>3, <4>4, OnlyDefaultByRow DEF Saved
        <4>6. rows'[a] = rows[a]
          BY <4>2, <4>5 DEF TypeOK
        <4>7. \A m \in Names : rows'[m] = rows[m] \/ (m = req[h].target /\ rows'[m] = draft[h])
          BY <4>2 DEF TypeOK
        <4>8. OnlyDefault(a)'
          BY <4>3, <4>4, <4>5, <4>6, <4>7, OnlyDefaultByRow, OnlyDefaultByRowNext
        <4>9. Coherent'
          BY <2>10, <4>1, <4>4, <4>6, <4>8 DEF Coherent, memory
        <4> QED
          BY <2>9, <4>1, <4>9
      <3>11. CASE Save(h) /\ IsUpdate(req[h])
        <4>1. /\ at[h] = "save" /\ at'[h] = "owner"
              /\ UNCHANGED <<activeConfigurationName, current, req, draft>>
          BY <3>11 DEF Save, Answer, memory, TypeOK
        <4>2. rows' = [rows EXCEPT ![req[h].name] = draft[h]]
          BY <3>11 DEF Save
        <4>3. req[h].name \in Saved /\ draft[h].isDefault = rows[req[h].name].isDefault
          BY <2>7, <3>11, <4>1 DEF HandlerInv
        <4>4. draft[h] # NoRow /\ req[h].name \in Names /\ rows'[req[h].name] = draft[h]
          BY <3>1, <4>1, <4>2, <4>3, CatalogAssumption DEF BusyOK, Saved, TypeOK
        <4>5. PICK a \in Names : a = activeConfigurationName /\ OnlyDefault(a)
          BY <2>10, <4>1 DEF Coherent, OnlyDefault
        <4>6. \A m \in Names : rows'[m] = rows[m] \/ (m = req[h].name /\ rows'[m] = draft[h])
          BY <4>2 DEF TypeOK
        <4>7. rows[req[h].name] # NoRow
          BY <4>3 DEF Saved
        <4>8. OnlyDefault(a)'
          BY <4>3, <4>4, <4>5, <4>6, <4>7, OnlyDefaultByRow, OnlyDefaultByRowNext
        <4>9. req[h].name # a => Coherent'
          BY <2>10, <4>1, <4>5, <4>6, <4>8 DEF Coherent
        <4>10. HandlerInv(h)'
          BY <4>1, <4>4, <4>5, <4>8, <4>9 DEF HandlerInv
        <4> QED
          BY <2>8, <4>10
      <3>12. CASE CheckOwner(h)
        <4>1. /\ at[h] = "owner" /\ at'[h] = "apply" /\ UNCHANGED <<rows, memory>>
              /\ UNCHANGED <<activeConfigurationName, req, draft>>
          BY <3>12 DEF CheckOwner, Continue, memory, TypeOK
        <4>2. /\ OnlyDefault(activeConfigurationName)
              /\ rows[req[h].name] = draft[h]
              /\ req[h].name # activeConfigurationName => Coherent
          BY <2>7, <4>1 DEF HandlerInv
        <4>3. req[h].name \in Names
          BY <3>1, <4>1 DEF BusyOK, IsUpdate, Request, Ops
        <4>4. req[h].name = activeConfigurationName
          BY <3>12, <4>2, <4>3 DEF CheckOwner, OnlyDefault, NamesFaithful
        <4>5. OnlyDefault(activeConfigurationName)'
          BY <2>1, <4>1, <4>2
        <4>6. HandlerInv(h)'
          BY <4>1, <4>2, <4>4, <4>5 DEF HandlerInv
        <4> QED
          BY <2>8, <4>6
      <3>13. CASE CheckNotOwner(h)
        <4>1. at[h] = "owner" /\ req[h].name # activeConfigurationName
          BY <3>13 DEF CheckNotOwner, SameName
        <4>2. Coherent
          BY <2>7, <4>1 DEF HandlerInv
        <4> QED
          BY <2>11, <3>13, <4>2 DEF CheckNotOwner
      <3>14. CASE Apply(h)
        <4>1. /\ at[h] = "apply" /\ Answer(h) /\ UNCHANGED <<rows, activeConfigurationName>>
              /\ current' = draft[h].options
          BY <3>14 DEF Apply
        <4>2. /\ OnlyDefault(activeConfigurationName)
              /\ rows[activeConfigurationName].options = draft[h].options
          BY <2>7, <4>1 DEF HandlerInv
        <4>3. Coherent'
          BY <2>1, <4>1, <4>2 DEF Coherent, OnlyDefault
        <4> QED
          BY <2>9, <4>1, <4>3
      <3>15. CASE Move(h)
        <4>1. /\ at[h] = "move" /\ at'[h] = "follow"
              /\ UNCHANGED <<activeConfigurationName, current, req>>
              /\ rows' = [rows EXCEPT ![req[h].target] = rows[req[h].name],
                                      ![req[h].name] = NoRow]
              /\ req[h].name \in Saved /\ req[h].target \notin Saved
          BY <3>15 DEF Move, memory, TypeOK
        <4>2. req[h].target \in Names /\ req[h].name \in Names /\ rows[req[h].name] # NoRow
          BY <3>1, <4>1 DEF BusyOK, Saved, IsUpdate, Request, Ops
        <4>3. req[h].target # req[h].name
          BY <4>1
        <4>4. rows[req[h].target] = NoRow
          BY <4>1, <4>2 DEF Saved
        <4>5. PICK a \in Names : a = activeConfigurationName /\ OnlyDefault(a) /\ current = rows[a].options
          BY <2>10, <4>1 DEF Coherent, OnlyDefault
        <4> PICK b \in Names : b = IF a = req[h].name THEN req[h].target ELSE a
          BY <4>2
        <4>6. rows'[req[h].target] = rows[req[h].name] /\ rows'[req[h].name] = NoRow
          BY <4>1, <4>2, <4>3 DEF TypeOK
        <4>7. \A m \in Names \ {req[h].name, req[h].target} : rows'[m] = rows[m]
          BY <4>1 DEF TypeOK
        <4>8. rows'[b] = rows[a]
          BY <4>2, <4>3, <4>4, <4>5, <4>6, <4>7, OnlyDefaultByRow
        <4>9. OnlyDefault(b)'
          BY <4>2, <4>3, <4>4, <4>5, <4>6, <4>7, <4>8, OnlyDefaultByRow, OnlyDefaultByRowNext
        <4>10. InForce(b)'
          BY <4>1, <4>5, <4>8, <4>9 DEF InForce
        <4>11. HandlerInv(h)'
          BY <4>1, <4>5, <4>10 DEF HandlerInv
        <4> QED
          BY <2>8, <4>11
      <3>16. CASE Follow(h)
        <4> DEFINE a == activeConfigurationName
                   b == IF a = req[h].name THEN req[h].target ELSE a
        <4>1. at[h] = "follow" /\ Answer(h) /\ UNCHANGED <<rows, current>>
          BY <3>16 DEF Follow
        <4>2. InForce(b)
          BY <2>7, <4>1 DEF HandlerInv
        <4>3. req[h].name \in Names /\ (a \in Names \/ a = NoName) /\ b \in Names
          BY <3>1, <4>1, <4>2 DEF BusyOK, TypeOK, InForce, OnlyDefault, IsUpdate, Request, Ops
        <4>4. a = NoName => b = NoName \/ a = req[h].name
          OBVIOUS
        <4>5. a \in Names
          BY <4>3, <4>4, NamesAssumption DEF NoName
        <4>6. SameName(a, req[h].name) <=> a = req[h].name
          BY <4>3, <4>5 DEF SameName, NamesFaithful
        <4>7. activeConfigurationName' = b
          BY <3>16, <4>6 DEF Follow
        <4>8. Coherent'
          BY <2>1, <4>1, <4>2, <4>7 DEF Coherent, InForce
        <4> QED
          BY <2>9, <4>1, <4>8
      <3>17. CASE CountOthers(h)
        <4>1. at[h] = "count" /\ req[h].op = "delete"
          BY <3>1, <3>17 DEF CountOthers, BusyOK, IsUpdate, Request, Ops
        <4> QED
          BY <2>10, <3>2, <3>3, <3>17, <4>1 DEF CountOthers, Steps
      <3>18. CASE GuardActive(h)
        <4>1. at[h] = "guard" /\ req[h].op = "delete"
          BY <3>1, <3>18 DEF GuardActive, BusyOK, IsUpdate, Request, Ops
        <4> QED
          BY <2>10, <3>2, <3>3, <3>18, <4>1 DEF GuardActive, Steps, SameName
      <3>19. CASE Remove(h)
        <4>1. at[h] = "remove" /\ Answer(h) /\ UNCHANGED <<activeConfigurationName, current>>
              /\ rows' = [rows EXCEPT ![req[h].name] = NoRow]
          BY <3>19 DEF Remove, memory
        <4>2. Coherent /\ req[h].name # activeConfigurationName
          BY <2>7, <4>1 DEF HandlerInv
        <4>3. OnlyDefault(activeConfigurationName)'
          BY <4>1, <4>2, OnlyDefaultByRow, OnlyDefaultByRowNext DEF Coherent, TypeOK
        <4>4. rows'[activeConfigurationName] = rows[activeConfigurationName]
          BY <4>1, <4>2 DEF TypeOK
        <4>5. Coherent'
          BY <4>1, <4>2, <4>3, <4>4 DEF Coherent
        <4> QED
          BY <2>9, <4>1, <4>5
      <3>20. CASE Activate(h)
        <4>1. /\ at[h] = "activate" /\ at'[h] = "publish" /\ UNCHANGED <<req, draft>>
              /\ req[h].name \in Saved /\ rows' = WithDefault(req[h].name)
          BY <3>20 DEF Activate, TypeOK
        <4>2. draft[h] = rows[req[h].name]
          BY <2>7, <4>1 DEF HandlerInv
        <4>3. OnlyDefault(req[h].name)' /\ rows'[req[h].name].options = draft[h].options
          BY <2>3, <4>1, <4>2
        <4>4. HandlerInv(h)'
          BY <4>1, <4>3 DEF HandlerInv
        <4> QED
          BY <2>8, <4>4
      <3>21. CASE Publish(h)
        <4>1. /\ at[h] = "publish" /\ Answer(h) /\ rows' = rows
              /\ activeConfigurationName' = req[h].name /\ current' = draft[h].options
          BY <3>21 DEF Publish
        <4>2. OnlyDefault(req[h].name) /\ draft[h].options = rows[req[h].name].options
          BY <2>7, <4>1 DEF HandlerInv
        <4>3. Coherent'
          BY <2>1, <4>1, <4>2 DEF Coherent
        <4> QED
          BY <2>9, <4>1, <4>3
      <3>22. CASE FindMissing(h) \/ FindRefused(h) \/ NameTaken(h) \/ TemplateMissing(h)
                  \/ MoveFails(h) \/ ActivateFails(h)
        BY <2>10, <2>11, <3>22 DEF FindMissing, FindRefused, Found, NameTaken,
           TemplateMissing, MoveFails, ActivateFails
      <3> QED
        BY <2>14, <3>4, <3>5, <3>6, <3>7, <3>8, <3>9, <3>10, <3>11, <3>12, <3>13, <3>14,
           <3>15, <3>16, <3>17, <3>18, <3>19, <3>20, <3>21, <3>22 DEF Proceed
    <2> QED
      BY <2>12, <2>13, <2>14
  <1> QED
    BY <1>1, <1>2, TypeCorrect, PTL DEF Spec

\* CoherentWhenIdle is an invariant when requests come one at a time and names
\* mean the same to SQLite and to the service.
THEOREM SequentialCoherence ==
    ASSUME OneAtATime, NamesFaithful
    PROVE  Spec => []CoherentWhenIdle
  <1>1. SequentialInv => CoherentWhenIdle
    BY DEF SequentialInv, CoherentWhenIdle
  <1> QED
    BY <1>1, SequentialAlways, PTL

-----------------------------------------------------------------------------
(* The active name is one that is saved, whatever names the service takes  *)
(* for one.                                                                *)

\* What the one handler relies on.  Until the active name has followed a rename,
\* either it is not concerned or the service takes it for the old name.
ActiveStep(h) ==
    /\ at[h] # "follow" => activeConfigurationName \in Saved
    /\ at[h] = "follow" =>
         /\ req[h].target \in Saved
         /\ activeConfigurationName \in Saved \/ SameName(activeConfigurationName, req[h].name)
    /\ at[h] = "remove" => ~SameName(req[h].name, activeConfigurationName)
    /\ at[h] = "publish" => req[h].name \in Saved

ActiveInv ==
    /\ phase # "serving" => Idle
    /\ phase = "opening" => activeConfigurationName \in Saved
    /\ phase = "serving" => /\ Idle => activeConfigurationName \in Saved
                            /\ \A h \in Handlers : ActiveStep(h)

\* ActiveIsSaved is an invariant when requests come one at a time, whatever
\* names mean the same to the service.
THEOREM ActiveStays == ASSUME OneAtATime PROVE Spec => []ActiveIsSaved
  <1>1. Init => ActiveInv
    BY DEF Init, ActiveInv, Idle
  <1>2. TypeOK /\ TypeOK' /\ ActiveInv /\ [Next]_vars => ActiveInv'
    <2> SUFFICES ASSUME TypeOK, TypeOK', ActiveInv, [Next]_vars
                 PROVE  ActiveInv'
      OBVIOUS
    <2>1. rows' = rows => Saved' = Saved
      BY DEF Saved
    <2>2. CASE Boot
      <3>1. phase # "serving" /\ Idle /\ at' = at /\ Idle'
        BY <2>2 DEF Boot, Seed, MarkSeed, KeepCatalog, Load, OpenLog, OpenLogFails,
           ActiveInv, Idle
      <3>2. CASE Seed \/ MarkSeed \/ KeepCatalog \/ OpenLogFails
        BY <3>1, <3>2 DEF Seed, MarkSeed, KeepCatalog, OpenLogFails, Exits, ActiveInv
      <3>3. CASE Load
        <4>1. activeConfigurationName' \in Saved /\ rows' = rows /\ phase' = "opening"
          BY <3>3 DEF Load, RestartsWith, LoadCandidates, Defaults
        <4> QED
          BY <2>1, <3>1, <4>1 DEF ActiveInv
      <3>4. CASE OpenLog
        <4>1. activeConfigurationName' \in Saved' /\ phase' = "serving"
          BY <2>1, <3>4 DEF OpenLog, ActiveInv, memory
        <4>2. \A h \in Handlers : at'[h] = "idle"
          BY <3>1 DEF Idle
        <4> QED
          BY <3>1, <4>1, <4>2 DEF ActiveInv, ActiveStep
      <3> QED
        BY <2>2, <3>2, <3>3, <3>4 DEF Boot
    <2>3. CASE Crash
      BY <2>3 DEF Crash, Exits, ActiveInv, Idle
    <2>4. CASE UNCHANGED vars
      BY <2>1, <2>4 DEF vars, ActiveInv, ActiveStep, Idle
    <2> SUFFICES ASSUME NEW h \in Handlers, Receive(h) \/ Proceed(h) \/ Abort(h)
                 PROVE  ActiveInv'
      BY <2>2, <2>3, <2>4 DEF Next
    <2>5. phase = "serving" /\ phase' = "serving" /\ ActiveStep(h)
      <3>1. CASE Receive(h)
        BY <3>1 DEF Receive, ActiveInv, process
      <3>2. CASE Proceed(h) \/ Abort(h)
        <4>1. at[h] # "idle" /\ UNCHANGED process
          BY <3>2 DEF Proceed, Abort, StoreCall, FindMissing, Found, FindToUpdate,
             FindToDuplicate, FindToRename, FindRefused, FindToDelete, FindToSelect, NameTaken,
             NameVacant, ResolveTemplate, TemplateMissing, Save, CheckOwner, CheckNotOwner,
             Apply, Move, MoveFails, Follow, CountOthers, GuardActive, Remove, Activate,
             ActivateFails, Publish, Refuse, Continue
        <4> QED
          BY <4>1 DEF ActiveInv, Idle, process
      <3> QED
        BY <3>1, <3>2
    \* h is the only handler there is.
    <2>6. ASSUME ActiveStep(h)'
          PROVE  ActiveInv'
      <3>1. Idle' => activeConfigurationName' \in Saved'
        BY <2>6 DEF ActiveStep, Idle
      <3>2. \A g \in Handlers : ActiveStep(g)'
        BY <2>6 DEF OneAtATime
      <3> QED
        BY <2>5, <3>1, <3>2 DEF ActiveInv
    \* Where the active name is saved, a step to none of the three steps that
    \* ask for more is harmless.
    <2>7. ASSUME activeConfigurationName' \in Saved',
                 at'[h] \notin {"follow", "remove", "publish"}
          PROVE  ActiveInv'
      BY <2>6, <2>7 DEF ActiveStep
    <2>8. ASSUME Answer(h), activeConfigurationName' \in Saved'
          PROVE  ActiveInv'
      BY <2>7, <2>8 DEF Answer, Goto, TypeOK
    <2>9. at[h] # "follow" => activeConfigurationName \in Saved
      BY <2>5 DEF ActiveStep
    <2>10. ASSUME Refuse(h), at[h] # "follow"
           PROVE  ActiveInv'
      BY <2>1, <2>8, <2>9, <2>10 DEF Refuse, memory
    <2>11. CASE Receive(h)
      BY <2>1, <2>7, <2>9, <2>11 DEF Receive, Goto, TypeOK, memory
    <2>12. CASE Abort(h)
      BY <2>10, <2>12 DEF Abort, StoreCall
    <2>13. CASE Proceed(h)
      <3> USE DEF Goto
      <3>1. at[h] # "idle" => BusyOK(h)
        BY DEF TypeOK
      <3>2. CASE \/ FindMissing(h) \/ FindRefused(h) \/ NameTaken(h) \/ TemplateMissing(h)
                 \/ CheckNotOwner(h) \/ MoveFails(h) \/ ActivateFails(h)
        BY <2>10, <3>2 DEF FindMissing, FindRefused, Found, NameTaken, TemplateMissing,
           CheckNotOwner, MoveFails, ActivateFails
      <3>3. CASE FindToUpdate(h) \/ FindToDuplicate(h) \/ FindToSelect(h) \/ ResolveTemplate(h)
        BY <2>1, <2>7, <2>9, <3>3 DEF FindToUpdate, FindToDuplicate, FindToSelect, Found,
           ResolveTemplate, memory, TypeOK
      <3>4. CASE FindToRename(h) \/ FindToDelete(h) \/ NameVacant(h) \/ CheckOwner(h)
        BY <2>1, <2>7, <2>9, <3>4 DEF FindToRename, FindToDelete, Found, NameVacant,
           CheckOwner, Continue, memory, TypeOK
      <3>5. CASE Save(h)
        <4>1. draft[h] # NoRow
          BY <3>1, <3>5, CatalogAssumption DEF Save, BusyOK
        <4>2. Saved \subseteq Saved'
          BY <3>5, <4>1 DEF Save, Saved, TypeOK
        <4>3. at[h] = "save" /\ at'[h] \in {"owner", "idle"} /\ UNCHANGED activeConfigurationName
          BY <3>5 DEF Save, Answer, memory, TypeOK
        <4> QED
          BY <2>7, <2>9, <4>2, <4>3
      <3>6. CASE Apply(h)
        BY <2>1, <2>8, <2>9, <3>6 DEF Apply
      <3>7. CASE Move(h)
        <4> DEFINE a == activeConfigurationName
        <4>1. /\ at[h] = "move" /\ at'[h] = "follow"
              /\ UNCHANGED <<activeConfigurationName, req>>
              /\ rows' = [rows EXCEPT ![req[h].target] = rows[req[h].name],
                                      ![req[h].name] = NoRow]
              /\ req[h].name \in Saved /\ req[h].target \notin Saved
          BY <3>7 DEF Move, memory, TypeOK
        <4>2. req[h].target \in Names /\ req[h].target # req[h].name
          BY <3>1, <4>1 DEF BusyOK, IsUpdate, Request, Ops
        <4>3. req[h].target \in Saved'
          BY <4>1, <4>2 DEF Saved, TypeOK
        <4>4. a # req[h].name => a \in Saved'
          BY <2>9, <4>1, <4>2 DEF Saved, TypeOK
        <4>5. ActiveStep(h)'
          BY <4>1, <4>3, <4>4 DEF ActiveStep, SameName
        <4> QED
          BY <2>6, <4>5
      <3>8. CASE Follow(h)
        <4>1. activeConfigurationName' \in Saved
          BY <2>5, <3>8 DEF Follow, ActiveStep
        <4> QED
          BY <2>1, <2>8, <3>8, <4>1 DEF Follow
      <3>9. CASE CountOthers(h)
        BY <2>1, <2>7, <2>9, <2>10, <3>9 DEF CountOthers, Continue, memory, TypeOK
      <3>10. CASE GuardActive(h)
        <4>1. CASE Refuse(h)
          BY <2>10, <3>10, <4>1 DEF GuardActive
        <4>2. CASE Continue(h, "remove") /\ ~SameName(req[h].name, activeConfigurationName)
          <5>1. /\ at'[h] = "remove" /\ rows' = rows
                /\ UNCHANGED <<activeConfigurationName, req>>
            BY <4>2 DEF Continue, memory, TypeOK
          <5>2. activeConfigurationName \in Saved
            BY <2>9, <3>10 DEF GuardActive
          <5>3. ActiveStep(h)'
            BY <2>1, <4>2, <5>1, <5>2 DEF ActiveStep, SameName
          <5> QED
            BY <2>6, <5>3
        <4> QED
          BY <3>10, <4>1, <4>2 DEF GuardActive
      <3>11. CASE Remove(h)
        <4>1. /\ at[h] = "remove" /\ Answer(h) /\ UNCHANGED activeConfigurationName
              /\ rows' = [rows EXCEPT ![req[h].name] = NoRow]
          BY <3>11 DEF Remove, memory
        <4>2. activeConfigurationName # req[h].name
          BY <2>5, <4>1 DEF ActiveStep, SameName
        <4>3. activeConfigurationName \in Saved'
          BY <2>9, <4>1, <4>2 DEF Saved, TypeOK
        <4> QED
          BY <2>8, <4>1, <4>3
      <3>12. CASE Activate(h)
        <4>1. /\ at[h] = "activate" /\ at'[h] = "publish"
              /\ UNCHANGED <<activeConfigurationName, req>>
              /\ req[h].name \in Saved /\ rows' = WithDefault(req[h].name)
          BY <3>12 DEF Activate, memory, TypeOK
        <4>2. ASSUME NEW m \in Saved
              PROVE  m \in Saved'
          <5>1. m \in Names /\ rows[m] \in Row /\ rows[m] # NoRow
            BY SavedRow DEF TypeOK, Saved
          <5>2. rows'[m] = [rows[m] EXCEPT !.isDefault = (m = req[h].name)]
            BY <4>1, <5>1 DEF WithDefault
          <5>3. rows'[m] \in Row
            BY <5>1, <5>2 DEF Row
          <5> QED
            BY <5>1, <5>3, CatalogAssumption DEF Saved
        <4>3. ActiveStep(h)'
          BY <2>9, <4>1, <4>2 DEF ActiveStep
        <4> QED
          BY <2>6, <4>3
      <3>13. CASE Publish(h)
        BY <2>1, <2>5, <2>8, <3>13 DEF Publish, ActiveStep
      <3> QED
        BY <2>13, <3>2, <3>3, <3>4, <3>5, <3>6, <3>7, <3>8, <3>9, <3>10, <3>11, <3>12, <3>13
           DEF Proceed
    <2> QED
      BY <2>11, <2>12, <2>13
  <1>3. ActiveInv => ActiveIsSaved
    BY DEF ActiveInv, ActiveIsSaved
  <1> QED
    BY <1>1, <1>2, <1>3, TypeCorrect, PTL DEF Spec
=============================================================================
