CONSTANTS
    t1 = t1
    t2 = t2
    k1 = k1
    s1 = s1
    f1 = f1
    f2 = f2
    Names = {1, 2, 3}
    Fold <- Same
    Backends = {t1}
    ApiKeys = {k1}
    Stores = {s1}
    Blank = Blank
    Absent = Absent
    InitialName = 1
    InitialOptions <- MCOptions
    NoOptions = NoOptions
    Flows = {f1, f2}
    Scenarios <- MCScenarios
    NoConfig = NoConfig
    Idle = Idle
SPECIFICATION Spec
SYMMETRY FlowSymmetry
INVARIANT SavingHasFlow
INVARIANT FormIsSelection
INVARIANT SettledEditor
INVARIANT CallsMeanWhatIsShown
INVARIANT KeyGoesWhereTyped
INVARIANT DraftKept
