---------------------------- MODULE ConfigSwitcher ----------------------------
(***************************************************************************)
(* The switcher of the dashboard (wwwroot/app.js): a panel with a search   *)
(* and the saved configurations that match it, one of them highlighted for *)
(* the keyboard, which makes a configuration the active one.               *)
(*                                                                         *)
(* The handlers run one at a time, but the list they work on is replaced   *)
(* by refreshNamedConfigs, which renders it one call to the server later:  *)
(* until then the state and the screen show different lists.  What the     *)
(* server answers is left open, it is the subject of ConfigCatalog.        *)
(***************************************************************************)
EXTENDS Integers, FiniteSets

CONSTANTS
    Names,      \* saved configurations, in the order of the list
    NoName,
    Queries,    \* what may stand in the search
    NoQuery,    \* the empty search
    Matches(_, _)   \* the configuration is found by the query

ASSUME SwitcherAssumption ==
    /\ Names \subseteq Int
    /\ IsFiniteSet(Names)
    /\ NoName \notin Names
    /\ NoQuery \in Queries
    /\ \A n \in Names : Matches(NoQuery, n) = TRUE
    /\ \A q \in Queries, n \in Names : Matches(q, n) \in BOOLEAN

VARIABLES
    switcher,   \* the members of state the switcher uses
    screen,     \* what it shows
    unrendered, \* history: the list is not the one that is shown
    unchanged,  \* history: the list is the one that was there at the last closing
    activated   \* history: the configuration the last step asked to activate

switcherVars == <<switcher, screen, unrendered, unchanged, activated>>

\* What /api/configs answers: the configurations, at most one of them active.
Lists == [names : SUBSET Names, active : Names \union {NoName}]

NoList == [names |-> {}, active |-> NoName]

-----------------------------------------------------------------------------
(* The list, the search and the highlight.                                 *)

\* getFilteredNamedConfigs
Filtered(s) == {n \in s.namedConfigs.names : Matches(s.query, n)}

\* A set of names is listed in their order.
IndexIn(n, names) == Cardinality({m \in names : m < n})

Nth(i, names) == CHOOSE n \in names : IndexIn(n, names) = i

Indices(names) == 0 .. Cardinality(names) - 1

\* Mutant: the search stays when the list is gone.
MendedKeepingQuery(s) ==
    IF s.namedConfigs.names = {} THEN [s EXCEPT !.isOpen = FALSE, !.focusIndex = -1]
    ELSE IF Filtered(s) = {} THEN [s EXCEPT !.focusIndex = -1]
    ELSE IF s.focusIndex \in Indices(Filtered(s)) THEN s
    ELSE [s EXCEPT !.focusIndex =
            IF s.namedConfigs.active \in Filtered(s)
              THEN IndexIn(s.namedConfigs.active, Filtered(s)) ELSE 0]

\* Mutant: a highlight past the end stays.
MendedBelow(s) ==
    IF s.namedConfigs.names = {}
      THEN [s EXCEPT !.isOpen = FALSE, !.query = NoQuery, !.focusIndex = -1]
    ELSE IF Filtered(s) = {} THEN [s EXCEPT !.focusIndex = -1]
    ELSE IF s.focusIndex >= 0 THEN s
    ELSE [s EXCEPT !.focusIndex =
            IF s.namedConfigs.active \in Filtered(s)
              THEN IndexIn(s.namedConfigs.active, Filtered(s)) ELSE 0]

\* renderConfigSwitcher first mends the state: no list closes the switcher, and a
\* highlight out of range goes to the active configuration.
Mended(s) ==
    IF s.namedConfigs.names = {}
      THEN [s EXCEPT !.isOpen = FALSE, !.query = NoQuery, !.focusIndex = -1]
    ELSE IF Filtered(s) = {} THEN [s EXCEPT !.focusIndex = -1]
    ELSE IF s.focusIndex \in Indices(Filtered(s)) THEN s
    ELSE [s EXCEPT !.focusIndex =
            IF s.namedConfigs.active \in Filtered(s)
              THEN IndexIn(s.namedConfigs.active, Filtered(s)) ELSE 0]

\* Then it shows it.
Shown(s) ==
    [options |-> Filtered(s), focused |-> s.focusIndex, isOpen |-> s.isOpen,
     query |-> s.query, disabled |-> s.namedConfigs.names = {},
     value |-> s.namedConfigs.active]

\* Mutant: it is shown before it is mended.
RenderUnmended(s) ==
    /\ switcher' = Mended(s)
    /\ screen' = Shown(s)
    /\ unrendered' = FALSE

RenderConfigSwitcher(s) ==
    /\ switcher' = Mended(s)
    /\ screen' = Shown(Mended(s))
    /\ unrendered' = FALSE

\* Mutant: the highlight stays where it was.
SetOpenKeepingFocus(isOpen, clearQuery) ==
    LET nextOpen == isOpen /\ switcher.namedConfigs.names # {}
        shouldClearQuery == clearQuery /\ switcher.query # NoQuery
    IN IF switcher.isOpen = nextOpen /\ ~shouldClearQuery
         THEN UNCHANGED <<switcher, screen, unrendered>>
         ELSE RenderConfigSwitcher(
                [switcher EXCEPT !.query = IF clearQuery THEN NoQuery ELSE @,
                                 !.isOpen = nextOpen])

\* setConfigSwitcherOpen
SetConfigSwitcherOpen(isOpen, clearQuery) ==
    LET nextOpen == isOpen /\ switcher.namedConfigs.names # {}
        shouldClearQuery == clearQuery /\ switcher.query # NoQuery
    IN IF switcher.isOpen = nextOpen /\ ~shouldClearQuery
         THEN UNCHANGED <<switcher, screen, unrendered>>
         ELSE RenderConfigSwitcher(
                [switcher EXCEPT !.query = IF clearQuery THEN NoQuery ELSE @,
                                 !.isOpen = nextOpen,
                                 !.focusIndex = IF nextOpen THEN @ ELSE -1])

Close ==
    /\ SetConfigSwitcherOpen(FALSE, TRUE)
    /\ unchanged' = (switcher.isOpen \/ unchanged)

Open ==
    /\ SetConfigSwitcherOpen(TRUE, FALSE)
    /\ UNCHANGED unchanged

\* moveConfigSwitcherFocus
FocusMoved(s, delta) ==
    LET n == Cardinality(Filtered(s)) IN
    IF n = 0 THEN -1
    ELSE IF s.focusIndex < 0 THEN 0
    ELSE (s.focusIndex + delta + n) % n

Init ==
    /\ switcher = [namedConfigs |-> NoList, isOpen |-> FALSE, query |-> NoQuery,
                   focusIndex |-> -1]
    /\ screen = Shown(switcher)
    /\ unrendered = FALSE
    /\ unchanged = FALSE
    /\ activated = NoName

-----------------------------------------------------------------------------
(* What the user does.                                                     *)

ClickTrigger ==
    /\ ~screen.disabled
    /\ IF switcher.isOpen THEN Close ELSE Open
    /\ activated' = NoName

\* Down, Enter and the space bar on the trigger.
KeyOnTrigger ==
    /\ ~screen.disabled
    /\ Open
    /\ activated' = NoName

\* The search and the options can be reached while the panel is shown.
Search(q) ==
    /\ screen.isOpen
    /\ RenderConfigSwitcher([switcher EXCEPT !.query = q, !.focusIndex = 0])
    /\ activated' = NoName
    /\ UNCHANGED unchanged

Escape ==
    /\ screen.isOpen
    /\ Close
    /\ activated' = NoName

Arrow(delta) ==
    /\ screen.isOpen
    /\ RenderConfigSwitcher([switcher EXCEPT !.focusIndex = FocusMoved(switcher, delta)])
    /\ activated' = NoName
    /\ UNCHANGED unchanged

\* activateConfigFromSwitcher, up to the call to the server.
ActivateConfigFromSwitcher(n) ==
    /\ Close
    /\ activated' = n

\* Mutant: the highlight is looked up in the list, not in what the search found.
EnterUnfiltered ==
    /\ screen.isOpen
    /\ Filtered(switcher) # {}
    /\ ActivateConfigFromSwitcher(
         Nth(IF switcher.focusIndex \in Indices(Filtered(switcher))
               THEN switcher.focusIndex ELSE 0, switcher.namedConfigs.names))

\* Enter goes by the list in the state ...
Enter ==
    /\ screen.isOpen
    /\ Filtered(switcher) # {}
    /\ ActivateConfigFromSwitcher(
         Nth(IF switcher.focusIndex \in Indices(Filtered(switcher))
               THEN switcher.focusIndex ELSE 0, Filtered(switcher)))

\* ... and a click by the option that is shown.  The click bubbles to the document,
\* where the option, being replaced, counts as outside: the switcher is closed by now.
ClickOption(n) ==
    /\ screen.isOpen
    /\ n \in screen.options
    /\ ActivateConfigFromSwitcher(n)

ClickOutside ==
    /\ Close
    /\ activated' = NoName

-----------------------------------------------------------------------------
(* What the functions of the editor do to the list.                        *)

\* refreshNamedConfigs assigns the answer; only an empty one is rendered at once.
ListArrives(list) ==
    /\ list.active \in list.names \union {NoName}
    /\ LET s == [switcher EXCEPT !.namedConfigs = list] IN
         IF list.names = {} THEN RenderConfigSwitcher(s)
         ELSE /\ switcher' = s
              /\ unrendered' = TRUE
              /\ UNCHANGED screen
    /\ unchanged' = FALSE
    /\ activated' = NoName

\* render, at the end of loadNamedConfig or of truncateRequests.
Render ==
    /\ RenderConfigSwitcher(switcher)
    /\ activated' = NoName
    /\ UNCHANGED unchanged

Next ==
    \/ ClickTrigger \/ KeyOnTrigger \/ Escape \/ Enter \/ ClickOutside \/ Render
    \/ \E q \in Queries : Search(q)
    \/ \E delta \in {-1, 1} : Arrow(delta)
    \/ \E n \in Names : ClickOption(n)
    \/ \E list \in Lists : ListArrives(list)

Spec == Init /\ [][Next]_switcherVars
=============================================================================
