------------------------ MODULE SavedConfigurations ------------------------
(***************************************************************************)
(* What the configuration API promises, with nothing of how it is done:    *)
(* named options of which one is selected, and operations that take place  *)
(* at once.  Each operation sees the configurations as they are at that    *)
(* moment; there are no snapshots, no handlers, no restarts.               *)
(* ConfigCatalog implements it as long as requests come one at a time.     *)
(***************************************************************************)
EXTENDS BridgeConfigurations

CONSTANTS
    InitialName,     \* the configuration an empty catalog starts with
    InitialOptions,
    NoOptions        \* what a name that is not saved has

VARIABLES
    configurations,  \* configurations[n]: the options saved as n, or NoOptions
    selected         \* the selected configuration

savedVars == <<configurations, selected>>

Exists(n) == n \in Names /\ configurations[n] # NoOptions

Vacant(n) == n \in Names /\ configurations[n] = NoOptions

SavedInit ==
    /\ configurations = [n \in Names |-> NoOptions]
    /\ selected = NoName

\* Only an empty catalog is seeded, and what it is seeded with is selected.
Start ==
    /\ \A n \in Names : Vacant(n)
    /\ configurations' = [configurations EXCEPT ![InitialName] = InitialOptions]
    /\ selected' = InitialName

\* A new configuration takes a vacant name; what the update leaves open comes
\* from one that exists.  A duplicate is one whose update is empty.
Create(n, template, update) ==
    /\ Vacant(n)
    /\ Exists(template)
    /\ configurations' = [configurations EXCEPT
                            ![n] = ApplyUpdate(configurations[template], update)]
    /\ UNCHANGED selected

\* An update changes one configuration, from what that configuration holds.
Update(n, update) ==
    /\ Exists(n)
    /\ configurations' = [configurations EXCEPT ![n] = ApplyUpdate(@, update)]
    /\ UNCHANGED selected

\* A renamed configuration keeps its options, and stays selected if it was.
Rename(n, m) ==
    /\ Exists(n)
    /\ Vacant(m)
    /\ configurations' = [configurations EXCEPT ![m] = configurations[n],
                                                ![n] = NoOptions]
    /\ selected' = IF selected = n THEN m ELSE selected

\* The selected configuration cannot be deleted, so one always remains.
Delete(n) ==
    /\ Exists(n)
    /\ n # selected
    /\ configurations' = [configurations EXCEPT ![n] = NoOptions]
    /\ UNCHANGED selected

Select(n) ==
    /\ Exists(n)
    /\ selected' = n
    /\ UNCHANGED configurations

SavedNext ==
    \/ Start
    \/ \E n \in Names :
         \/ \E m \in Names, u \in Updates : Create(n, m, u)
         \/ \E u \in Updates : Update(n, u)
         \/ \E m \in Names : Rename(n, m)
         \/ Delete(n)
         \/ Select(n)

SavedSpec == SavedInit /\ [][SavedNext]_savedVars
=============================================================================
