-------------------------- MODULE CatalogRefinement --------------------------
(***************************************************************************)
(* The catalog service implements the atomic catalog of                    *)
(* SavedConfigurations, for every set of names, options and requests, and  *)
(* any number of crashes, when requests come one at a time.                *)
(***************************************************************************)
EXTENDS CatalogProofs

\* The empty update, which makes of a create a copy.
EmptyUpdate == [backend |-> Absent, apiKey |-> Absent, store |-> Absent]

\* o is what an update makes of the options of a configuration that is saved.
Derived(o) == \E m \in Saved, u \in Updates : o = ApplyUpdate(rows[m].options, u)

\* The snapshots a handler takes: of what is saved, and still saved.
SnapshotInv(h) ==
    /\ at[h] = "vacant" /\ req[h].op = "duplicate" => Derived(draft[h].options)
    /\ at[h] = "save" /\ ~IsUpdate(req[h]) => Derived(draft[h].options)
    /\ at[h] = "save" /\ IsUpdate(req[h]) =>
         /\ req[h].name \in Saved
         /\ draft[h].options = ApplyUpdate(rows[req[h].name].options, req[h].update)
    /\ at[h] \in {"count", "guard", "remove"} => req[h].name \in Saved

Snapshots == \A h \in Handlers : SnapshotInv(h)

-----------------------------------------------------------------------------
(* Lemmas about what the two catalogs have in common.                      *)

\* The empty update changes nothing.
LEMMA EmptyUpdateKeeps ==
    ASSUME NEW o \in Options
    PROVE  EmptyUpdate \in Updates /\ ApplyUpdate(o, EmptyUpdate) = o
  BY DEF Options, Updates, EmptyUpdate, ApplyUpdate, KeepIfBlank

\* The options of a saved configuration are derived ones, and so is what an
\* update makes of them.
LEMMA DerivedFromSaved ==
    ASSUME TypeOK, NEW m \in Saved
    PROVE  /\ Derived(rows[m].options)
           /\ \A u \in Updates : Derived(ApplyUpdate(rows[m].options, u))
  <1>1. rows[m].options \in Options
    BY SavedRow DEF TypeOK
  <1> QED
    BY <1>1, EmptyUpdateKeeps DEF Derived

\* The request of a busy handler carries an update, and the name it is for.
LEMMA BusyRequest ==
    ASSUME TypeOK, NEW h \in Handlers, at[h] # "idle"
    PROVE  /\ req[h].update \in Updates
           /\ at[h] = "save" => /\ IsUpdate(req[h]) => req[h].name \in Names
                                /\ ~IsUpdate(req[h]) => req[h].target \in Names
           /\ at[h] = "move" => req[h].name \in Names /\ req[h].target \in Names
  BY DEF TypeOK, BusyOK, Request, Ops, IsUpdate

\* What SQLite has marked is what is selected.
LEMMA MarkedOne ==
    ASSUME NEW n, OnlyDefault(n)
    PROVE  MarkedName = n
  BY DEF OnlyDefault, MarkedName

LEMMA MarkedOneNext ==
    ASSUME NEW n, OnlyDefault(n)'
    PROVE  MarkedName' = n
  BY DEF OnlyDefault, MarkedName

\* A name has options in the abstract catalog when it is saved.
LEMMA ExistsIsSaved ==
    ASSUME TypeOK, NEW n \in Names
    PROVE  /\ n \in Saved <=> SavedOptions[n] # NoOptions
           /\ n \in Saved => SavedOptions[n] = rows[n].options
  <1>1. n \in Saved => rows[n].options # NoRow
    BY SavedRow, CatalogAssumption DEF TypeOK
  <1> QED
    BY <1>1 DEF Saved, SavedOptions, NoOptions

\* Where rows are left alone nothing is seen from outside.
LEMMA RowsStay ==
    ASSUME UNCHANGED rows
    PROVE  UNCHANGED <<SavedOptions, MarkedName>>
  BY DEF SavedOptions, MarkedName, Defaults, Saved, NoOptions

\* Marking a row changes the options of none.
LEMMA MarkingKeepsOptions ==
    ASSUME TypeOK, NEW n, rows' = WithDefault(n)
    PROVE  UNCHANGED SavedOptions
  <1>1. \A m \in Names : rows[m] # NoRow =>
          /\ rows'[m] # NoRow
          /\ rows'[m].options = rows[m].options
    <2> SUFFICES ASSUME NEW m \in Names, rows[m] # NoRow
                 PROVE  rows'[m] # NoRow /\ rows'[m].options = rows[m].options
      OBVIOUS
    <2>1. rows[m] \in Row
      BY DEF TypeOK
    <2>2. rows'[m] = [rows[m] EXCEPT !.isDefault = (m = n)]
      BY DEF WithDefault
    <2>3. rows'[m] \in Row /\ rows'[m].options = rows[m].options
      BY <2>1, <2>2 DEF Row
    <2> QED
      BY <2>3, CatalogAssumption
  <1>2. \A m \in Names : rows[m] = NoRow => rows'[m] = NoRow
    BY DEF WithDefault
  <1> QED
    BY <1>1, <1>2 DEF SavedOptions, NoOptions

\* Writing a row changes the options of its name, and of no other.
LEMMA WritingOneRow ==
    ASSUME TypeOK, NEW n \in Names, NEW row \in Row, rows' = [rows EXCEPT ![n] = row]
    PROVE  SavedOptions' = [SavedOptions EXCEPT ![n] = row.options]
  BY CatalogAssumption DEF SavedOptions, NoOptions, TypeOK

-----------------------------------------------------------------------------
(* The snapshots are true of the table when they are used.                 *)

\* Where rows and the names of the catalog are left alone, a snapshot stays.
LEMMA DerivedStays ==
    ASSUME UNCHANGED rows
    PROVE  Saved' = Saved /\ \A o : Derived(o)' <=> Derived(o)
  BY DEF Derived, Saved

\* A step of the only handler keeps its snapshots true.
LEMMA SnapshotStep ==
    ASSUME TypeOK, TypeOK', SequentialInv, NEW h \in Handlers, SnapshotInv(h),
           Receive(h) \/ Proceed(h) \/ Abort(h)
    PROVE  SnapshotInv(h)'
  <1> USE DEF TypeOK, Goto
  \* Most steps lead to where nothing is said.
  <1>1. ASSUME at'[h] \in {"idle", "find", "template", "owner", "apply", "move", "follow",
                           "activate", "publish"}
        PROVE  SnapshotInv(h)'
    BY <1>1 DEF SnapshotInv
  <1>2. CASE Receive(h)
    <2>1. PICK r \in Requests :
            /\ req' = [req EXCEPT ![h] =
                         IF r.op = "updateActive"
                         THEN [r EXCEPT !.name = activeConfigurationName] ELSE r]
            /\ Goto(h, IF r.op = "create" THEN "vacant" ELSE "find")
      BY <1>2 DEF Receive
    <2>2. at'[h] \in {"vacant", "find"} /\ (at'[h] = "vacant" => req'[h].op = "create")
      BY <2>1
    <2> QED
      BY <2>2 DEF SnapshotInv
  <1>3. CASE \/ FindMissing(h) \/ FindRefused(h) \/ NameTaken(h) \/ TemplateMissing(h)
             \/ CheckNotOwner(h) \/ MoveFails(h) \/ ActivateFails(h) \/ Abort(h)
             \/ CheckOwner(h) \/ Apply(h) \/ Move(h) \/ Follow(h) \/ Remove(h)
             \/ FindToSelect(h) \/ Activate(h) \/ Publish(h) \/ Save(h)
    BY <1>1, <1>3 DEF FindMissing, FindRefused, NameTaken, TemplateMissing, CheckNotOwner,
       MoveFails, ActivateFails, Abort, CheckOwner, Apply, Move, Follow, Remove, FindToSelect,
       Activate, Publish, Save, Refuse, Answer, Continue
  <1>4. CASE FindToUpdate(h)
    <2>1. /\ at'[h] = "save" /\ IsUpdate(req[h]) /\ UNCHANGED <<rows, req>>
          /\ req[h].name \in Saved
      BY <1>4 DEF FindToUpdate, Found, IsUpdate
    <2>2. draft'[h].options = ApplyUpdate(rows[req[h].name].options, req[h].update)
      BY <1>4, <2>1, SavedRow DEF FindToUpdate, Row
    <2> QED
      BY <2>1, <2>2, DerivedStays DEF SnapshotInv
  <1>5. CASE FindToDuplicate(h)
    <2>1. /\ at'[h] = "vacant" /\ UNCHANGED <<rows, req>> /\ req[h].name \in Saved
          /\ draft'[h].options = rows[req[h].name].options
      BY <1>5, SavedRow DEF FindToDuplicate, Found, Row
    <2>2. Derived(draft'[h].options)
      BY <2>1, DerivedFromSaved
    <2> QED
      BY <2>1, <2>2, DerivedStays DEF SnapshotInv
  <1>6. CASE FindToRename(h) \/ FindToDelete(h)
    <2>1. /\ at'[h] \in {"vacant", "count"} /\ UNCHANGED <<rows, req>>
          /\ req[h].name \in Saved
          /\ at'[h] = "vacant" => req[h].op = "rename"
      BY <1>6 DEF FindToRename, FindToDelete, Found, Continue
    <2> QED
      BY <2>1, DerivedStays DEF SnapshotInv
  <1>7. CASE NameVacant(h)
    <2>1. /\ at[h] = "vacant" /\ at'[h] \in {"template", "save", "move"}
          /\ UNCHANGED <<rows, req, draft>>
          /\ at'[h] = "save" => req[h].op = "duplicate" /\ ~IsUpdate(req[h])
      BY <1>7 DEF NameVacant, Continue, IsUpdate
    <2>2. at'[h] = "save" => Derived(draft'[h].options)
      BY <2>1 DEF SnapshotInv
    <2> QED
      BY <1>1, <2>1, <2>2, DerivedStays DEF SnapshotInv
  <1>8. CASE ResolveTemplate(h)
    <2> DEFINE name == req[h].name
               template == IF name = NoName THEN current ELSE rows[name].options
    <2>1. /\ at[h] = "template" /\ at'[h] = "save" /\ UNCHANGED <<rows, req>>
          /\ name # NoName => name \in Saved
          /\ draft'[h].options = ApplyUpdate(template, req[h].update)
      BY <1>8 DEF ResolveTemplate
    <2>2. ~IsUpdate(req[h]) /\ phase = "serving"
      BY <2>1 DEF BusyOK, IsUpdate, SequentialInv, Idle
    \* The options in force are those of the active configuration.
    <2>3. Coherent
      BY <2>1, <2>2 DEF SequentialInv, HandlerInv
    <2>4. \E m \in Saved : template = rows[m].options
      BY <2>1, <2>3 DEF Coherent, OnlyDefault, Defaults
    <2>5. Derived(draft'[h].options)
      BY <2>1, <2>4, DerivedFromSaved, BusyRequest
    <2> QED
      BY <2>1, <2>2, <2>5, DerivedStays DEF SnapshotInv
  <1>9. CASE CountOthers(h) \/ GuardActive(h)
    <2>1. /\ at[h] \in {"count", "guard"} /\ UNCHANGED rows
          /\ at'[h] = "idle" \/ (at'[h] \in {"guard", "remove"} /\ UNCHANGED req)
      BY <1>9 DEF CountOthers, GuardActive, Refuse, Answer, Continue
    <2> QED
      BY <1>1, <2>1, DerivedStays DEF SnapshotInv
  <1> QED
    BY <1>2, <1>3, <1>4, <1>5, <1>6, <1>7, <1>8, <1>9 DEF Proceed

\* With one handler, nobody else changes the table under a snapshot.
LEMMA SnapshotsAlways ==
    ASSUME OneAtATime, NamesFaithful
    PROVE  Spec => []Snapshots
  <1>1. Init => Snapshots
    BY DEF Init, Snapshots, SnapshotInv
  <1>2. TypeOK /\ TypeOK' /\ SequentialInv /\ Snapshots /\ [Next]_vars => Snapshots'
    <2> SUFFICES ASSUME TypeOK, TypeOK', SequentialInv, Snapshots, [Next]_vars,
                        NEW h \in Handlers
                 PROVE  SnapshotInv(h)'
      BY DEF Snapshots
    <2>1. CASE \E g \in Handlers : Receive(g) \/ Proceed(g) \/ Abort(g)
      BY <2>1, SnapshotStep DEF OneAtATime, Snapshots
    <2>2. CASE Crash
      BY <2>2 DEF Crash, SnapshotInv
    <2>3. CASE Boot
      <3>1. phase # "serving" /\ UNCHANGED at
        BY <2>3 DEF Boot, Seed, MarkSeed, KeepCatalog, Load, OpenLog, OpenLogFails
      <3>2. at'[h] = "idle"
        BY <3>1 DEF SequentialInv, Idle
      <3> QED
        BY <3>2 DEF SnapshotInv
    <2>4. CASE UNCHANGED vars
      BY <2>4, DerivedStays DEF vars, Snapshots, SnapshotInv
    <2> QED
      BY <2>1, <2>2, <2>3, <2>4 DEF Next
  <1> QED
    BY <1>1, <1>2, TypeCorrect, SequentialAlways, PTL DEF Spec

-----------------------------------------------------------------------------
(* Every step is an operation of the abstract catalog, or is not seen.     *)

\* The data are the same on both sides.
LEMMA SameData ==
    /\ Abstract!NoName = NoName
    /\ Abstract!Updates = Updates
    /\ \A o, u : Abstract!ApplyUpdate(o, u) = ApplyUpdate(o, u)
  BY DEF Abstract!NoName, NoName, Abstract!Updates, Updates, Abstract!ApplyUpdate, ApplyUpdate,
     Abstract!KeepIfBlank, KeepIfBlank

\* While a handler neither has written nor is about to write memory, the
\* active configuration is the marked one.
LEMMA MarkedIsActive ==
    ASSUME SequentialInv, phase = "serving", NEW h \in Handlers,
           at[h] \notin {"owner", "apply", "follow", "publish"}
    PROVE  Coherent /\ MarkedName = activeConfigurationName
  BY MarkedOne DEF SequentialInv, HandlerInv, Coherent

LEMMA BusyMeansServing ==
    ASSUME SequentialInv, NEW h \in Handlers, at[h] # "idle"
    PROVE  phase = "serving"
  BY DEF SequentialInv, Idle

\* When the only handler has answered, the active configuration is again the
\* marked one.
LEMMA MarkedIsActiveAfter ==
    ASSUME OneAtATime, SequentialInv', phase' = "serving", NEW h \in Handlers, at'[h] = "idle"
    PROVE  MarkedName' = activeConfigurationName'
  BY MarkedOneNext DEF SequentialInv, HandlerInv, Coherent

\* A handler that saves updates a configuration, or creates one.
LEMMA SaveRefines ==
    ASSUME OneAtATime, TypeOK, SequentialInv, SequentialInv', NEW h \in Handlers,
           SnapshotInv(h), Save(h)
    PROVE  Abstract!SavedNext
  <1>1. /\ at[h] = "save" /\ phase = "serving" /\ phase' = "serving"
        /\ activeConfigurationName' = activeConfigurationName
    BY BusyMeansServing DEF Save, process, memory
  <1>2. draft[h] \in Row
    BY <1>1 DEF TypeOK, BusyOK
  <1>3. MarkedName = activeConfigurationName
    BY <1>1, MarkedIsActive
  <1>4. CASE IsUpdate(req[h])
    <2> DEFINE n == req[h].name
    <2>1. n \in Saved /\ draft[h].options = ApplyUpdate(rows[n].options, req[h].update)
      BY <1>1, <1>4 DEF SnapshotInv
    <2>2. n \in Names /\ req[h].update \in Updates
      BY <1>1, <1>4, BusyRequest
    <2>3. SavedOptions' = [SavedOptions EXCEPT ![n] = draft[h].options]
      <3>1. rows' = [rows EXCEPT ![n] = draft[h]]
        BY <1>4 DEF Save
      <3> QED
        BY <1>2, <2>2, <3>1, WritingOneRow
    <2>4. SavedOptions[n] # NoOptions /\ SavedOptions[n] = rows[n].options
      BY <2>1, <2>2, ExistsIsSaved
    <2>5. MarkedName' = MarkedName
      <3>1. at'[h] = "owner"
        BY <1>4 DEF Save, Answer, Goto, TypeOK
      <3>2. OnlyDefault(activeConfigurationName)'
        BY <1>1, <3>1 DEF SequentialInv, HandlerInv
      <3> QED
        BY <1>1, <1>3, <3>2, MarkedOneNext
    <2>6. Abstract!Update(n, req[h].update)
      BY <2>1, <2>2, <2>3, <2>4, <2>5, SameData DEF Abstract!Update, Abstract!Exists
    <2> QED
      BY <2>2, <2>6, SameData DEF Abstract!SavedNext
  <1>5. CASE ~IsUpdate(req[h])
    <2> DEFINE n == req[h].target
    <2>1. n \in Names /\ n \notin Saved
      BY <1>1, <1>5, BusyRequest DEF SequentialInv, HandlerInv
    <2>2. PICK m \in Saved, u \in Updates : draft[h].options = ApplyUpdate(rows[m].options, u)
      BY <1>1, <1>5 DEF SnapshotInv, Derived
    <2>3. m \in Names
      BY DEF Saved
    <2>4. SavedOptions' = [SavedOptions EXCEPT ![n] = draft[h].options]
      <3>1. rows' = [rows EXCEPT ![n] = draft[h]]
        BY <1>5 DEF Save
      <3> QED
        BY <1>2, <2>1, <3>1, WritingOneRow
    <2>5. SavedOptions[n] = NoOptions
      BY <2>1, ExistsIsSaved
    <2>6. SavedOptions[m] # NoOptions /\ SavedOptions[m] = rows[m].options
      BY <2>3, ExistsIsSaved
    <2>7. MarkedName' = MarkedName
      <3>1. at'[h] = "idle"
        BY <1>5 DEF Save, Answer, Goto, TypeOK
      <3> QED
        BY <1>1, <1>3, <3>1, MarkedIsActiveAfter
    <2>8. Abstract!Create(n, m, u)
      BY <2>1, <2>2, <2>3, <2>4, <2>5, <2>6, <2>7, SameData
         DEF Abstract!Create, Abstract!Exists, Abstract!Vacant
    <2> QED
      BY <2>1, <2>3, <2>8, SameData DEF Abstract!SavedNext
  <1> QED
    BY <1>4, <1>5

\* A row that is moved is a configuration renamed, and is selected as before.
LEMMA MoveRefines ==
    ASSUME TypeOK, SequentialInv, SequentialInv', NEW h \in Handlers, Move(h)
    PROVE  Abstract!SavedNext
  <1> DEFINE n == req[h].name
             m == req[h].target
             a == activeConfigurationName
  <1>1. /\ at[h] = "move" /\ at'[h] = "follow" /\ phase = "serving" /\ phase' = "serving"
        /\ a' = a /\ UNCHANGED req
        /\ n \in Saved /\ m \notin Saved
        /\ rows' = [rows EXCEPT ![m] = rows[n], ![n] = NoRow]
    BY BusyMeansServing DEF Move, process, memory, Goto, TypeOK
  <1>2. n \in Names /\ m \in Names /\ m # n
    BY <1>1, BusyRequest
  <1>3. /\ SavedOptions[n] # NoOptions /\ SavedOptions[n] = rows[n].options
        /\ SavedOptions[m] = NoOptions
    BY <1>1, <1>2, ExistsIsSaved
  <1>4. SavedOptions' = [SavedOptions EXCEPT ![m] = SavedOptions[n], ![n] = NoOptions]
    BY <1>1, <1>2, <1>3 DEF SavedOptions, NoOptions, TypeOK, Saved
  <1>5. MarkedName = a
    BY <1>1, MarkedIsActive
  <1>6. MarkedName' = IF a = n THEN m ELSE a
    <2>1. OnlyDefault(IF a = n THEN m ELSE a)'
      BY <1>1 DEF SequentialInv, HandlerInv, InForce
    <2> QED
      BY <1>1, <2>1, MarkedOneNext
  <1>7. Abstract!Rename(n, m)
    BY <1>2, <1>3, <1>4, <1>5, <1>6 DEF Abstract!Rename, Abstract!Exists, Abstract!Vacant
  <1> QED
    BY <1>2, <1>7 DEF Abstract!SavedNext

\* A row that is removed is one that is saved and not selected.
LEMMA RemoveRefines ==
    ASSUME OneAtATime, TypeOK, SequentialInv, SequentialInv', NEW h \in Handlers,
           SnapshotInv(h), Remove(h)
    PROVE  Abstract!SavedNext
  <1> DEFINE n == req[h].name
  <1>1. /\ at[h] = "remove" /\ at'[h] = "idle" /\ phase = "serving" /\ phase' = "serving"
        /\ activeConfigurationName' = activeConfigurationName
        /\ rows' = [rows EXCEPT ![n] = NoRow]
    BY BusyMeansServing DEF Remove, process, memory, Answer, Goto, TypeOK
  <1>2. n \in Saved /\ n \in Names
    BY <1>1 DEF SnapshotInv, Saved
  <1>3. n # MarkedName
    BY <1>1, MarkedIsActive DEF SequentialInv, HandlerInv
  <1>4. MarkedName' = MarkedName
    BY <1>1, MarkedIsActive, MarkedIsActiveAfter
  <1>5. SavedOptions[n] # NoOptions
    BY <1>2, ExistsIsSaved
  <1>6. SavedOptions' = [SavedOptions EXCEPT ![n] = NoOptions]
    BY <1>1, <1>2 DEF SavedOptions, NoOptions, TypeOK
  <1>7. Abstract!Delete(n)
    BY <1>2, <1>3, <1>4, <1>5, <1>6 DEF Abstract!Delete, Abstract!Exists
  <1> QED
    BY <1>2, <1>7 DEF Abstract!SavedNext

\* The row SQLite marks is the configuration selected.
LEMMA ActivateRefines ==
    ASSUME TypeOK, SequentialInv, SequentialInv', NEW h \in Handlers, Activate(h)
    PROVE  Abstract!SavedNext
  <1> DEFINE n == req[h].name
  <1>1. /\ at[h] = "activate" /\ at'[h] = "publish" /\ phase = "serving" /\ phase' = "serving"
        /\ n \in Saved /\ UNCHANGED req /\ rows' = WithDefault(n)
    BY BusyMeansServing DEF Activate, process, Goto, TypeOK
  <1>2. n \in Names
    BY <1>1 DEF Saved
  <1>3. SavedOptions[n] # NoOptions
    BY <1>1, <1>2, ExistsIsSaved
  <1>4. UNCHANGED SavedOptions
    BY <1>1, MarkingKeepsOptions
  <1>5. MarkedName' = n
    <2>1. OnlyDefault(n)'
      BY <1>1 DEF SequentialInv, HandlerInv
    <2> QED
      BY <1>1, <2>1, MarkedOneNext
  <1>6. Abstract!Select(n)
    BY <1>2, <1>3, <1>4, <1>5 DEF Abstract!Select, Abstract!Exists
  <1> QED
    BY <1>2, <1>6 DEF Abstract!SavedNext

\* The seed starts an empty catalog, and marking it is not seen.
LEMMA BootRefines ==
    ASSUME TypeOK, SequentialInv, SequentialInv', Boot
    PROVE  Abstract!SavedNext \/ UNCHANGED <<SavedOptions, MarkedName>>
  <1>1. CASE Seed
    <2>1. \A n \in Names : rows[n] = NoRow
      BY <1>1 DEF Seed, Saved
    <2>2. [options |-> Bootstrap, isDefault |-> TRUE] \in Row
      BY CatalogAssumption DEF Row
    <2>3. SavedOptions' = [SavedOptions EXCEPT ![SeedName] = Bootstrap]
      BY <1>1, <2>2, CatalogAssumption, WritingOneRow DEF Seed
    <2>4. OnlyDefault(SeedName)'
      BY <1>1, CatalogAssumption DEF Seed, SequentialInv
    <2>5. MarkedName' = SeedName
      BY <2>4, MarkedOneNext, CatalogAssumption
    <2>6. \A n \in Names : SavedOptions[n] = NoOptions
      BY <2>1 DEF SavedOptions
    <2>7. Abstract!Start
      BY <2>3, <2>5, <2>6 DEF Abstract!Start, Abstract!Vacant
    <2> QED
      BY <2>7 DEF Abstract!SavedNext
  <1>2. CASE MarkSeed
    <2>1. OnlyDefault(SeedName)
      BY <1>2 DEF MarkSeed, SequentialInv
    <2>2. rows' = WithDefault(SeedName)
      BY <1>2 DEF MarkSeed
    <2>3. OnlyDefault(SeedName)'
      <3>1. rows[SeedName] # NoRow /\ rows[SeedName] \in Row /\ SeedName \in Names
        BY <2>1, OnlyDefaultByRow DEF TypeOK
      <3>2. rows'[SeedName] = [rows[SeedName] EXCEPT !.isDefault = TRUE]
        BY <2>2, <3>1 DEF WithDefault
      <3>3. rows'[SeedName] # NoRow /\ rows'[SeedName].isDefault
        BY <3>1, <3>2, CatalogAssumption DEF Row
      <3>4. \A m \in Names : rows'[m] # NoRow /\ rows'[m].isDefault => m = SeedName
        BY <2>2 DEF WithDefault, Row, TypeOK
      <3> QED
        BY <3>1, <3>3, <3>4, OnlyDefaultByRowNext
    <2> QED
      BY <2>1, <2>2, <2>3, MarkedOne, MarkedOneNext, MarkingKeepsOptions, CatalogAssumption
  <1>3. CASE KeepCatalog \/ Load \/ OpenLog \/ OpenLogFails
    BY <1>3, RowsStay DEF KeepCatalog, Load, OpenLog, OpenLogFails
  <1> QED
    BY <1>1, <1>2, <1>3 DEF Boot

\* ImplementsSavedConfigurations: the empty table is the empty catalog, and a
\* step of the service that shows is one operation of the abstract catalog,
\* taken on what the table holds at that moment.
THEOREM CatalogRefines ==
    ASSUME OneAtATime, NamesFaithful
    PROVE  Spec => ImplementsSavedConfigurations
  <1>1. Init => Abstract!SavedInit
    <2> SUFFICES ASSUME Init
                 PROVE  Abstract!SavedInit
      OBVIOUS
    <2>1. \A n \in Names : rows[n] = NoRow
      BY DEF Init
    <2>2. Defaults = {}
      BY <2>1 DEF Defaults, Saved
    <2> QED
      BY <2>1, <2>2, SameData DEF Abstract!SavedInit, SavedOptions, MarkedName
  <1>2. ASSUME TypeOK, SequentialInv, SequentialInv', Snapshots, [Next]_vars
        PROVE  [Abstract!SavedNext]_(Abstract!savedVars)
    <2>1. Abstract!SavedNext \/ UNCHANGED <<SavedOptions, MarkedName>>
      <3>1. CASE UNCHANGED rows
        BY <3>1, RowsStay
      <3>2. CASE Boot
        BY <1>2, <3>2, BootRefines
      <3>3. CASE \E h \in Handlers : Save(h) \/ Move(h) \/ Remove(h) \/ Activate(h)
        BY <1>2, <3>3, SaveRefines, MoveRefines, RemoveRefines, ActivateRefines DEF Snapshots
      <3> QED
        BY <1>2, <3>1, <3>2, <3>3 DEF Next, Crash, vars, Receive, Proceed, Abort, FindMissing,
           FindToUpdate, FindToDuplicate, FindToRename, FindRefused, FindToDelete, FindToSelect,
           NameTaken, NameVacant, ResolveTemplate, TemplateMissing, CheckOwner, CheckNotOwner,
           Apply, MoveFails, Follow, CountOthers, GuardActive, ActivateFails, Publish, Refuse,
           Continue
    <2> QED
      BY <2>1 DEF Abstract!savedVars
  <1> QED
    BY <1>1, <1>2, TypeCorrect, SequentialAlways, SnapshotsAlways, PTL
       DEF Spec, ImplementsSavedConfigurations, Abstract!SavedSpec
=============================================================================
