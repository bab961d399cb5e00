-------------------------- MODULE SwitcherProperties --------------------------
(***************************************************************************)
(* What the switcher promises: what is shown is what a key acts on.        *)
(***************************************************************************)
EXTENDS ConfigSwitcher

\* The type invariant: the highlight is an index or -1, for none.
TypeOK ==
    /\ switcher \in [namedConfigs : Lists, isOpen : BOOLEAN, query : Queries,
                     focusIndex : -1 .. Cardinality(Names) - 1]
    /\ screen \in [options : SUBSET Names, focused : -1 .. Cardinality(Names) - 1,
                   isOpen : BOOLEAN, query : Queries, disabled : BOOLEAN,
                   value : Names \union {NoName}]
    /\ unrendered \in BOOLEAN
    /\ unchanged \in BOOLEAN
    /\ activated \in Names \union {NoName}

\* Every handler that changes what the switcher works on shows it, also the one
\* that returns early: the panel, the search and the highlight are always those of
\* the state, and so are the options unless a list waits to be rendered.
ScreenIsState ==
    /\ screen.isOpen = switcher.isOpen
    /\ screen.query = switcher.query
    /\ screen.focused = switcher.focusIndex
    /\ ~unrendered => screen = Shown(switcher)

\* A switcher that is closed, however it was, has forgotten its search, or it would
\* hide configurations when it is opened again.
ClosedForgets == ~switcher.isOpen => switcher.query = NoQuery

\* On the screen one of the options is highlighted unless there is none, after
\* the list shrank, the search narrowed or the highlight went round the end.
HighlightIsOption ==
    IF screen.options = {} THEN screen.focused = -1
                           ELSE screen.focused \in Indices(screen.options)

\* Enter activates the configuration that is highlighted.  This takes a list that
\* is rendered: in between, Enter goes by the new list and the old highlight.
EnterMeansHighlighted ==
    [][Enter /\ ~unrendered => activated' = Nth(screen.focused, screen.options)]_switcherVars

\* A switcher that opens again on the list it was closed on highlights the active
\* configuration, and not what was highlighted before; on a new list it may
\* highlight the one that was active.
OpensOnActive ==
    [][~switcher.isOpen /\ switcher'.isOpen /\ unchanged
         /\ switcher.namedConfigs.active # NoName
       => Nth(screen'.focused, screen'.options) = switcher.namedConfigs.active]_switcherVars
=============================================================================
