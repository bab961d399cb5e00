---------------------------- MODULE SwitcherProofs ----------------------------
(***************************************************************************)
(* The properties of the switcher for any finite list of configurations    *)
(* and any search.  The indices are cardinalities, so the first lemmas say *)
(* how a position in a finite set of integers behaves.                     *)
(***************************************************************************)
EXTENDS SwitcherProperties, FiniteSetTheorems, TLAPS

\* A member of a finite list has an index of the list.
LEMMA IndexInRange ==
    ASSUME NEW S, IsFiniteSet(S), NEW n \in S, S \subseteq Int
    PROVE  IndexIn(n, S) \in Indices(S)
  <1> DEFINE B == {m \in S : m < n}
  <1>1. B \subseteq S /\ B # S
    OBVIOUS
  <1>2. IsFiniteSet(B) /\ Cardinality(B) <= Cardinality(S)
        /\ (Cardinality(B) = Cardinality(S) => B = S)
    BY <1>1, FS_Subset
  <1>3. Cardinality(B) \in Nat /\ Cardinality(S) \in Nat
    BY <1>2, FS_CardinalityType
  <1>4. Cardinality(B) < Cardinality(S)
    BY <1>1, <1>2, <1>3
  <1> QED
    BY <1>3, <1>4 DEF IndexIn, Indices

\* Different members have different indices.
LEMMA IndexInjective ==
    ASSUME NEW S, IsFiniteSet(S), S \subseteq Int, NEW a \in S, NEW b \in S, a < b
    PROVE  IndexIn(a, S) < IndexIn(b, S)
  <1> DEFINE A == {m \in S : m < a}
             B == {m \in S : m < b}
  <1>1. A \subseteq B /\ A # B /\ B \subseteq S
    <2>1. a \in Int /\ b \in Int
      OBVIOUS
    <2>2. ASSUME NEW m \in A PROVE m \in B
      <3>1. m \in S /\ m \in Int /\ m < a
        OBVIOUS
      <3> QED
        BY <2>1, <3>1
    <2>3. a \in B /\ a \notin A
      BY <2>1
    <2> QED
      BY <2>2, <2>3
  <1>2. IsFiniteSet(B)
    BY <1>1, FS_Subset
  <1>3. IsFiniteSet(A) /\ Cardinality(A) <= Cardinality(B)
        /\ (Cardinality(A) = Cardinality(B) => A = B)
    BY <1>1, <1>2, FS_Subset
  <1>4. Cardinality(A) \in Nat /\ Cardinality(B) \in Nat
    BY <1>2, <1>3, FS_CardinalityType
  <1> QED
    BY <1>1, <1>3, <1>4 DEF IndexIn

\* The configuration at the index of n is n.
LEMMA NthOfIndex ==
    ASSUME NEW S, IsFiniteSet(S), S \subseteq Int, NEW n \in S
    PROVE  Nth(IndexIn(n, S), S) = n
  <1>1. PICK m \in S : m = Nth(IndexIn(n, S), S) /\ IndexIn(m, S) = IndexIn(n, S)
    BY DEF Nth
  <1>2. IndexIn(n, S) \in Int
    <2>1. Cardinality(S) \in Nat
      BY FS_CardinalityType
    <2>2. IndexIn(n, S) \in Indices(S)
      BY IndexInRange
    <2> QED
      BY <2>1, <2>2 DEF Indices
  <1>3. ASSUME m < n PROVE FALSE
    <2>1. IndexIn(m, S) < IndexIn(n, S)
      BY <1>3, IndexInjective
    <2> QED
      BY <1>1, <1>2, <2>1
  <1>4. ASSUME n < m PROVE FALSE
    <2>1. IndexIn(n, S) < IndexIn(m, S)
      BY <1>4, IndexInjective
    <2> QED
      BY <1>1, <1>2, <2>1
  <1>5. m \in Int /\ n \in Int
    OBVIOUS
  <1> QED
    BY <1>1, <1>3, <1>4, <1>5

\* Every index of a finite list is that of a member: the indices are as many.
LEMMA NthInList ==
    ASSUME NEW S, IsFiniteSet(S), S \subseteq Int, NEW i \in Indices(S)
    PROVE  Nth(i, S) \in S
  <1> DEFINE f == [n \in S |-> IndexIn(n, S)]
             T == 0 .. Cardinality(S) - 1
  <1>1. Cardinality(S) \in Nat
    BY FS_CardinalityType
  <1>2. \A n \in S : IndexIn(n, S) \in T
    BY IndexInRange DEF Indices
  <1>3. \A a, b \in S : IndexIn(a, S) = IndexIn(b, S) => a = b
    BY NthOfIndex
  <1>4. f \in Injection(S, T)
    BY <1>2, <1>3 DEF Injection, IsInjective
  <1>5. IsFiniteSet(T) /\ Cardinality(T) = Cardinality(S)
    BY <1>1, FS_Interval
  <1>6. f \in Surjection(S, T)
    BY <1>4, <1>5, FS_Injection
  <1>7. \E n \in S : IndexIn(n, S) = i
    BY <1>6 DEF Surjection, Indices
  <1> QED
    BY <1>7 DEF Nth

-----------------------------------------------------------------------------
(* The state of the switcher before and after it is mended.                *)

Loose == [namedConfigs : Lists, isOpen : BOOLEAN, query : Queries, focusIndex : Int]

Members == [namedConfigs : Lists, isOpen : BOOLEAN, query : Queries,
            focusIndex : -1 .. Cardinality(Names) - 1]

Screens == [options : SUBSET Names, focused : -1 .. Cardinality(Names) - 1,
            isOpen : BOOLEAN, query : Queries, disabled : BOOLEAN,
            value : Names \union {NoName}]

\* What the search finds is a finite list of saved configurations.
LEMMA FilteredFacts ==
    ASSUME NEW s \in Loose
    PROVE  /\ Filtered(s) \subseteq Names
           /\ Filtered(s) \subseteq Int
           /\ IsFiniteSet(Filtered(s))
           /\ Indices(Filtered(s)) \subseteq -1 .. Cardinality(Names) - 1
           /\ Indices(Filtered(s)) \subseteq Int
           /\ Filtered(s) # {} => 0 \in Indices(Filtered(s))
  <1>1. Filtered(s) \subseteq s.namedConfigs.names /\ s.namedConfigs.names \subseteq Names
    BY DEF Filtered, Loose, Lists
  <1>2. IsFiniteSet(Filtered(s)) /\ Cardinality(Filtered(s)) <= Cardinality(Names)
    BY <1>1, FS_Subset, SwitcherAssumption
  <1>3. Cardinality(Filtered(s)) \in Nat /\ Cardinality(Names) \in Nat
    BY <1>2, FS_CardinalityType, SwitcherAssumption
  <1>4. Filtered(s) # {} => Cardinality(Filtered(s)) # 0
    BY <1>2, FS_EmptySet
  <1>5. Filtered(s) \subseteq Names /\ Filtered(s) \subseteq Int
    BY <1>1, SwitcherAssumption
  <1>6. /\ Indices(Filtered(s)) \subseteq -1 .. Cardinality(Names) - 1
        /\ Indices(Filtered(s)) \subseteq Int
        /\ Filtered(s) # {} => 0 \in Indices(Filtered(s))
    BY <1>2, <1>3, <1>4 DEF Indices
  <1> QED
    BY <1>2, <1>5, <1>6

\* An empty search finds every configuration.
LEMMA NoQueryFindsAll ==
    ASSUME NEW s \in Loose, s.query = NoQuery
    PROVE  Filtered(s) = s.namedConfigs.names
  BY SwitcherAssumption DEF Filtered, Loose, Lists

\* What renderConfigSwitcher makes of the state.
LEMMA MendedFacts ==
    ASSUME NEW s \in Loose
    PROVE  /\ Mended(s) \in Members
           /\ Mended(s) \in Loose
           /\ Mended(s).namedConfigs = s.namedConfigs
           /\ Mended(s).isOpen = (s.isOpen /\ s.namedConfigs.names # {})
           /\ Mended(s).query = IF s.namedConfigs.names = {} THEN NoQuery ELSE s.query
           /\ IF Filtered(Mended(s)) = {}
                THEN Mended(s).focusIndex = -1
                ELSE Mended(s).focusIndex \in Indices(Filtered(Mended(s)))
           /\ s.focusIndex \in Indices(Filtered(s)) /\ Filtered(s) # {}
                => Mended(s).focusIndex = s.focusIndex
           /\ s.focusIndex = -1 /\ s.namedConfigs.active \in Filtered(s)
                => Mended(s).focusIndex = IndexIn(s.namedConfigs.active, Filtered(s))
  <1> DEFINE names == s.namedConfigs.names
             F == Filtered(s)
             home == IF s.namedConfigs.active \in F
                       THEN IndexIn(s.namedConfigs.active, F) ELSE 0
  <1>1. /\ F \subseteq Names /\ F \subseteq Int /\ IsFiniteSet(F)
        /\ Indices(F) \subseteq -1 .. Cardinality(Names) - 1
        /\ F # {} => 0 \in Indices(F)
    BY FilteredFacts
  <1>2. -1 \in -1 .. Cardinality(Names) - 1 /\ -1 \notin Indices(F) /\ -1 \in Int
    BY FS_CardinalityType, SwitcherAssumption DEF Indices
  <1>3. F # {} => home \in Indices(F)
    BY <1>1, IndexInRange
  <1>4. names = {} => F = {}
    BY DEF Filtered
  <1>5. NoQuery \in Queries
    BY SwitcherAssumption
  <1>6. CASE names = {}
    <2>1. Mended(s) = [s EXCEPT !.isOpen = FALSE, !.query = NoQuery, !.focusIndex = -1]
      BY <1>6 DEF Mended
    <2>2. Mended(s) \in Members /\ Mended(s) \in Loose
          /\ Mended(s).namedConfigs = s.namedConfigs /\ Mended(s).isOpen = FALSE
          /\ Mended(s).query = NoQuery /\ Mended(s).focusIndex = -1
      BY <2>1, <1>2, <1>5 DEF Loose, Members
    <2>3. Filtered(Mended(s)) = {}
      BY <1>6, <2>2 DEF Filtered
    <2> QED
      BY <1>4, <1>6, <2>2, <2>3
  <1>7. CASE names # {} /\ F = {}
    <2>1. Mended(s) = [s EXCEPT !.focusIndex = -1]
      BY <1>7 DEF Mended
    <2>2. Mended(s) \in Members /\ Mended(s) \in Loose
          /\ Mended(s).namedConfigs = s.namedConfigs /\ Mended(s).isOpen = s.isOpen
          /\ Mended(s).query = s.query /\ Mended(s).focusIndex = -1
      BY <2>1, <1>2 DEF Loose, Members
    <2>3. Filtered(Mended(s)) = {}
      BY <1>7, <2>2 DEF Filtered
    <2>4. s.isOpen = (s.isOpen /\ s.namedConfigs.names # {})
      BY <1>7 DEF Loose
    <2> QED
      BY <1>7, <2>2, <2>3, <2>4
  <1>8. CASE names # {} /\ F # {} /\ s.focusIndex \in Indices(F)
    <2>1. Mended(s) = s
      BY <1>8 DEF Mended
    <2>2. Mended(s) \in Members
      BY <2>1, <1>1, <1>8 DEF Loose, Members
    <2>3. s.isOpen = (s.isOpen /\ s.namedConfigs.names # {})
      BY <1>8 DEF Loose
    <2> QED
      BY <1>2, <1>8, <2>1, <2>2, <2>3
  <1>9. CASE names # {} /\ F # {} /\ s.focusIndex \notin Indices(F)
    <2>1. Mended(s) = [s EXCEPT !.focusIndex = home]
      BY <1>9 DEF Mended
    <2>2. home \in -1 .. Cardinality(Names) - 1 /\ home \in Int
      BY <1>1, <1>3, <1>9, FilteredFacts
    <2>3. Mended(s) \in Members /\ Mended(s) \in Loose
          /\ Mended(s).namedConfigs = s.namedConfigs /\ Mended(s).isOpen = s.isOpen
          /\ Mended(s).query = s.query /\ Mended(s).focusIndex = home
      BY <2>1, <2>2 DEF Loose, Members
    <2>4. Filtered(Mended(s)) = F
      BY <2>3 DEF Filtered
    <2>5. s.isOpen = (s.isOpen /\ s.namedConfigs.names # {})
      BY <1>9 DEF Loose
    <2> QED
      BY <1>3, <1>9, <2>3, <2>4, <2>5
  <1> QED
    BY <1>6, <1>7, <1>8, <1>9

\* What is shown of a mended state is a screen that highlights an option.
LEMMA ShownFacts ==
    ASSUME NEW s \in Loose
    PROVE  /\ Shown(Mended(s)) \in Screens
           /\ IF Shown(Mended(s)).options = {}
                THEN Shown(Mended(s)).focused = -1
                ELSE Shown(Mended(s)).focused \in Indices(Shown(Mended(s)).options)
  <1>1. /\ Mended(s) \in Members /\ Mended(s) \in Loose
        /\ IF Filtered(Mended(s)) = {}
                THEN Mended(s).focusIndex = -1
                ELSE Mended(s).focusIndex \in Indices(Filtered(Mended(s)))
    BY MendedFacts
  <1>2. Filtered(Mended(s)) \subseteq Names
    BY <1>1, FilteredFacts
  <1>3. Mended(s).namedConfigs \in Lists
    BY <1>1 DEF Members
  <1> QED
    BY <1>1, <1>2, <1>3 DEF Shown, Screens, Members, Lists

-----------------------------------------------------------------------------
(* The screen shows the state.                                             *)

\* What holds of a state and a screen, and of whether a list waits.
Sound(s, shown, waits) ==
    /\ s \in Members /\ shown \in Screens /\ waits \in BOOLEAN
    /\ s.namedConfigs.active \in s.namedConfigs.names \union {NoName}
    /\ shown.isOpen = s.isOpen /\ shown.query = s.query /\ shown.focused = s.focusIndex
    /\ ~waits => shown = Shown(s)
    /\ ~s.isOpen => s.query = NoQuery
    /\ IF shown.options = {} THEN shown.focused = -1
                             ELSE shown.focused \in Indices(shown.options)

ScreenInv == Sound(switcher, screen, unrendered)

LEMMA MembersLoose == Members \subseteq Loose
  <1>1. Cardinality(Names) \in Nat
    BY FS_CardinalityType, SwitcherAssumption
  <1> QED
    BY <1>1 DEF Members, Loose

\* Rendering makes state and screen sound: a state that was closed with a search in
\* it is what it cannot repair.
LEMMA RenderSound ==
    ASSUME NEW s \in Loose, s.isOpen \/ s.query = NoQuery,
           s.namedConfigs.active \in s.namedConfigs.names \union {NoName}
    PROVE  Sound(Mended(s), Shown(Mended(s)), FALSE)
  <1>1. /\ Mended(s) \in Members
        /\ Mended(s).namedConfigs = s.namedConfigs
        /\ Mended(s).isOpen = (s.isOpen /\ s.namedConfigs.names # {})
        /\ Mended(s).query = IF s.namedConfigs.names = {} THEN NoQuery ELSE s.query
    BY MendedFacts
  <1>2. /\ Shown(Mended(s)) \in Screens
        /\ IF Shown(Mended(s)).options = {}
             THEN Shown(Mended(s)).focused = -1
             ELSE Shown(Mended(s)).focused \in Indices(Shown(Mended(s)).options)
    BY ShownFacts
  <1>3. /\ Shown(Mended(s)).isOpen = Mended(s).isOpen
        /\ Shown(Mended(s)).query = Mended(s).query
        /\ Shown(Mended(s)).focused = Mended(s).focusIndex
    BY DEF Shown
  <1>4. ~Mended(s).isOpen => Mended(s).query = NoQuery
    BY <1>1 DEF Loose
  <1> QED
    BY <1>1, <1>2, <1>3, <1>4 DEF Sound

\* So does setConfigSwitcherOpen, as it is called: a closing clears the search.
LEMMA SetOpenSound ==
    ASSUME ScreenInv, NEW isOpen \in BOOLEAN, NEW clearQuery \in BOOLEAN,
           isOpen \/ clearQuery, SetConfigSwitcherOpen(isOpen, clearQuery)
    PROVE  ScreenInv'
  <1> DEFINE nextOpen == isOpen /\ switcher.namedConfigs.names # {}
             s == [switcher EXCEPT !.query = IF clearQuery THEN NoQuery ELSE @,
                                   !.isOpen = nextOpen,
                                   !.focusIndex = IF nextOpen THEN @ ELSE -1]
  <1>1. switcher \in Loose
    BY MembersLoose DEF ScreenInv, Sound
  <1>2. CASE UNCHANGED <<switcher, screen, unrendered>>
    BY <1>2 DEF ScreenInv
  <1>3. CASE RenderConfigSwitcher(s)
    <2>1. s \in Loose /\ s.namedConfigs = switcher.namedConfigs
          /\ s.isOpen = nextOpen
          /\ s.query = IF clearQuery THEN NoQuery ELSE switcher.query
      <3>1. nextOpen \in BOOLEAN /\ NoQuery \in Queries
        BY SwitcherAssumption
      <3> DEFINE q == IF clearQuery THEN NoQuery ELSE switcher.query
                 i == IF nextOpen THEN switcher.focusIndex ELSE -1
      <3>2. q \in Queries /\ i \in Int
        BY <1>1, <3>1 DEF Loose
      <3>3. s = [switcher EXCEPT !.query = q, !.isOpen = nextOpen, !.focusIndex = i]
        BY Zenon
      <3> HIDE DEF nextOpen, q, i, s
      <3>4. s \in Loose /\ s.namedConfigs = switcher.namedConfigs
            /\ s.isOpen = nextOpen /\ s.query = q
        BY <1>1, <3>1, <3>2, <3>3 DEF Loose
      <3> QED
        BY <3>4 DEF q
    <2>2. switcher.namedConfigs.active
             \in switcher.namedConfigs.names \union {NoName}
      BY DEF ScreenInv, Sound
    <2>3. CASE s.isOpen \/ s.query = NoQuery
      <3>1. Sound(Mended(s), Shown(Mended(s)), FALSE)
        BY <2>1, <2>2, <2>3, RenderSound
      <3> QED
        BY <1>3, <3>1 DEF RenderConfigSwitcher, ScreenInv
    <2>4. CASE ~s.isOpen /\ s.query # NoQuery
      <3>1. ~clearQuery /\ isOpen /\ switcher.namedConfigs.names = {}
        BY <2>1, <2>4
      <3>2. /\ Mended(s) \in Members
            /\ Mended(s).namedConfigs = s.namedConfigs
            /\ Mended(s).query = NoQuery
        BY <2>1, <3>1, MendedFacts
      <3>3. /\ Shown(Mended(s)) \in Screens
            /\ IF Shown(Mended(s)).options = {}
                 THEN Shown(Mended(s)).focused = -1
                 ELSE Shown(Mended(s)).focused \in Indices(Shown(Mended(s)).options)
        BY <2>1, ShownFacts
      <3>4. /\ Shown(Mended(s)).isOpen = Mended(s).isOpen
            /\ Shown(Mended(s)).query = Mended(s).query
            /\ Shown(Mended(s)).focused = Mended(s).focusIndex
        BY DEF Shown
      <3>5. Sound(Mended(s), Shown(Mended(s)), FALSE)
        BY <2>1, <2>2, <3>2, <3>3, <3>4 DEF Sound
      <3> QED
        BY <1>3, <3>5 DEF RenderConfigSwitcher, ScreenInv
    <2> QED
      BY <2>3, <2>4
  <1> QED
    BY <1>2, <1>3 DEF SetConfigSwitcherOpen

LEMMA CloseSound == ScreenInv /\ Close => ScreenInv'
  BY SetOpenSound DEF Close

LEMMA OpenSound == ScreenInv /\ Open => ScreenInv'
  BY SetOpenSound DEF Open

\* The arrows move the highlight to an integer: the remainder is taken of no zero.
LEMMA FocusMovedInt ==
    ASSUME NEW s \in Loose, NEW delta \in {-1, 1}
    PROVE  FocusMoved(s, delta) \in Int
  <1> DEFINE n == Cardinality(Filtered(s))
             i == s.focusIndex + delta + n
  <1>1. n \in Nat
    BY FilteredFacts, FS_CardinalityType
  <1>2. n \in Nat /\ i \in Int
    BY <1>1 DEF Loose
  <1>3. n # 0 => i % n \in Int
    BY <1>2
  <1> QED
    BY <1>2, <1>3 DEF FocusMoved

\* Every step keeps state and screen sound.
LEMMA ScreenStep == ScreenInv /\ [Next]_switcherVars => ScreenInv'
  <1> SUFFICES ASSUME ScreenInv, [Next]_switcherVars PROVE ScreenInv'
    OBVIOUS
  <1>1. /\ switcher \in Loose
        /\ switcher.namedConfigs.active \in switcher.namedConfigs.names \union {NoName}
        /\ screen.isOpen = switcher.isOpen
        /\ switcher.isOpen \/ switcher.query = NoQuery
        /\ switcher \in Members /\ screen \in Screens
    BY MembersLoose DEF ScreenInv, Sound, Members
  <1>2. CASE ClickTrigger
    BY <1>2, CloseSound, OpenSound DEF ClickTrigger
  <1>3. CASE KeyOnTrigger
    BY <1>3, OpenSound DEF KeyOnTrigger
  <1>4. CASE Escape \/ Enter \/ ClickOutside \/ \E n \in Names : ClickOption(n)
    BY <1>4, CloseSound
       DEF Escape, Enter, ClickOutside, ClickOption, ActivateConfigFromSwitcher
  <1>5. CASE Render
    <2>1. Sound(Mended(switcher), Shown(Mended(switcher)), FALSE)
      BY <1>1, RenderSound
    <2> QED
      BY <1>5, <2>1 DEF Render, RenderConfigSwitcher, ScreenInv
  <1>6. ASSUME NEW q \in Queries, Search(q) PROVE ScreenInv'
    <2> DEFINE s == [switcher EXCEPT !.query = q, !.focusIndex = 0]
    <2>1. switcher.isOpen
      BY <1>1, <1>6 DEF Search
    <2>2. s \in Loose /\ s.isOpen /\ s.namedConfigs = switcher.namedConfigs
      <3>1. q \in Queries /\ 0 \in Int
        BY <1>6
      <3>2. s \in Loose /\ s.namedConfigs = switcher.namedConfigs
            /\ s.isOpen = switcher.isOpen
        BY <1>1, <3>1 DEF Loose
      <3> QED
        BY <2>1, <3>2
    <2>3. Sound(Mended(s), Shown(Mended(s)), FALSE)
      BY <1>1, <2>2, RenderSound
    <2> QED
      BY <1>6, <2>3 DEF Search, RenderConfigSwitcher, ScreenInv
  <1>7. ASSUME NEW delta \in {-1, 1}, Arrow(delta) PROVE ScreenInv'
    <2> DEFINE s == [switcher EXCEPT !.focusIndex = FocusMoved(switcher, delta)]
    <2>1. FocusMoved(switcher, delta) \in Int
      BY <1>1, <1>7, FocusMovedInt
    <2>2. s \in Loose /\ s.isOpen /\ s.namedConfigs = switcher.namedConfigs
      BY <1>1, <1>7, <2>1 DEF Arrow, Loose
    <2>3. Sound(Mended(s), Shown(Mended(s)), FALSE)
      BY <1>1, <2>2, RenderSound
    <2> QED
      BY <1>7, <2>3 DEF Arrow, RenderConfigSwitcher, ScreenInv
  <1>8. ASSUME NEW list \in Lists, ListArrives(list) PROVE ScreenInv'
    <2> DEFINE s == [switcher EXCEPT !.namedConfigs = list]
    <2>1. /\ s \in Loose /\ s \in Members /\ s.namedConfigs = list
          /\ s.isOpen = switcher.isOpen /\ s.query = switcher.query
          /\ s.focusIndex = switcher.focusIndex
          /\ list.active \in list.names \union {NoName}
      BY <1>1, <1>8 DEF ListArrives, Loose, Members
    <2>2. CASE list.names = {}
      <3>1. Sound(Mended(s), Shown(Mended(s)), FALSE)
        BY <1>1, <2>1, RenderSound
      <3> QED
        BY <1>8, <2>2, <3>1 DEF ListArrives, RenderConfigSwitcher, ScreenInv
    <2>3. CASE list.names # {}
      <3>1. switcher' = s /\ screen' = screen /\ unrendered' = TRUE
        BY <1>8, <2>3 DEF ListArrives
      <3>2. Sound(s, screen, TRUE)
        BY <2>1 DEF ScreenInv, Sound
      <3> QED
        BY <3>1, <3>2 DEF ScreenInv
    <2> QED
      BY <2>2, <2>3
  <1>9. CASE UNCHANGED switcherVars
    BY <1>9 DEF switcherVars, ScreenInv
  <1> QED
    BY <1>2, <1>3, <1>4, <1>5, <1>6, <1>7, <1>8, <1>9 DEF Next

\* At first there is no list, and the screen says so.
LEMMA InitSound == Init => ScreenInv
  <1> SUFFICES ASSUME Init PROVE ScreenInv
    OBVIOUS
  <1>1. Cardinality(Names) \in Nat
    BY FS_CardinalityType, SwitcherAssumption
  <1>2. /\ switcher.namedConfigs = NoList /\ switcher.isOpen = FALSE
        /\ switcher.query = NoQuery /\ switcher.focusIndex = -1
        /\ switcher \in Members
    BY <1>1, SwitcherAssumption DEF Init, Members, NoList, Lists
  <1>3. Filtered(switcher) = {}
    BY <1>2 DEF Filtered, NoList
  <1>4. screen = [options |-> {}, focused |-> -1, isOpen |-> FALSE, query |-> NoQuery,
                  disabled |-> TRUE, value |-> NoName]
    BY <1>2, <1>3 DEF Init, Shown, NoList
  <1>5. screen \in Screens
    BY <1>1, <1>4, SwitcherAssumption DEF Screens
  <1>6. unrendered = FALSE /\ screen = Shown(switcher)
    BY DEF Init
  <1>7. switcher.namedConfigs.active \in switcher.namedConfigs.names \union {NoName}
    BY <1>2 DEF NoList
  <1>8. screen.options = {} /\ screen.focused = -1 /\ screen.isOpen = FALSE
        /\ screen.query = NoQuery
    BY <1>4
  <1> QED
    BY <1>2, <1>5, <1>6, <1>7, <1>8 DEF ScreenInv, Sound

\* The specification keeps state and screen sound.
LEMMA ScreenAlways == Spec => []ScreenInv
  BY InitSound, ScreenStep, PTL DEF Spec

-----------------------------------------------------------------------------
(* Theorems.                                                               *)

\* The screen shows the state, up to a list that waits to be rendered, for any
\* list, any search and any order of keys, clicks and answers.
THEOREM ShowsState == Spec => []ScreenIsState
  <1>1. ScreenInv => ScreenIsState
    BY DEF ScreenInv, Sound, ScreenIsState
  <1> QED
    BY <1>1, ScreenAlways, PTL

\* A switcher that is closed has no search.
THEOREM ForgetsSearch == Spec => []ClosedForgets
  <1>1. ScreenInv => ClosedForgets
    BY DEF ScreenInv, Sound, ClosedForgets
  <1> QED
    BY <1>1, ScreenAlways, PTL

\* One of the options that are shown is highlighted.
THEOREM HighlightsOption == Spec => []HighlightIsOption
  <1>1. ScreenInv => HighlightIsOption
    BY DEF ScreenInv, Sound, HighlightIsOption
  <1> QED
    BY <1>1, ScreenAlways, PTL

\* Enter activates what is highlighted, when the list is rendered.
THEOREM EnterActivates == Spec => EnterMeansHighlighted
  <1>1. ScreenInv /\ [Next]_switcherVars =>
          [Enter /\ ~unrendered => activated' = Nth(screen.focused, screen.options)]_switcherVars
    <2> SUFFICES ASSUME ScreenInv, Enter, ~unrendered
                 PROVE  activated' = Nth(screen.focused, screen.options)
      OBVIOUS
    <2>1. screen = Shown(switcher)
      BY DEF ScreenInv, Sound
    <2>2. screen.options = Filtered(switcher) /\ screen.focused = switcher.focusIndex
      BY <2>1 DEF Shown
    <2>3. switcher.focusIndex \in Indices(Filtered(switcher))
      BY <2>2 DEF ScreenInv, Sound, Enter
    <2> QED
      BY <2>2, <2>3 DEF Enter, ActivateConfigFromSwitcher
  <1> QED
    BY <1>1, ScreenAlways, PTL DEF Spec, EnterMeansHighlighted

\* What Enter asks for is a saved configuration.
LEMMA EnterAsksForSaved == ScreenInv /\ Enter => activated' \in Names
  <1> SUFFICES ASSUME ScreenInv, Enter PROVE activated' \in Names
    OBVIOUS
  <1>1. switcher \in Loose
    BY MembersLoose DEF ScreenInv, Sound
  <1> DEFINE F == Filtered(switcher)
             i == IF switcher.focusIndex \in Indices(F) THEN switcher.focusIndex ELSE 0
  <1>2. F \subseteq Names /\ F \subseteq Int /\ IsFiniteSet(F) /\ i \in Indices(F)
    BY <1>1, FilteredFacts DEF Enter
  <1>3. Nth(i, F) \in F
    BY <1>2, NthInList
  <1> QED
    BY <1>2, <1>3 DEF Enter, ActivateConfigFromSwitcher

\* Every member of state has its type: the highlight never leaves the list, whatever
\* its length.
THEOREM SwitcherTypeCorrect == Spec => []TypeOK
  <1> DEFINE Histories == unchanged \in BOOLEAN /\ activated \in Names \union {NoName}
  <1>1. Init => Histories
    BY DEF Init
  <1>2. ScreenInv /\ Histories /\ [Next]_switcherVars => Histories'
    <2> SUFFICES ASSUME ScreenInv, Histories, [Next]_switcherVars PROVE Histories'
      OBVIOUS
    <2>1. switcher.isOpen \in BOOLEAN
      BY DEF ScreenInv, Sound, Members
    <2>2. CASE Enter
      <3>1. activated' \in Names
        BY <2>2, EnterAsksForSaved
      <3> QED
        BY <2>1, <2>2, <3>1 DEF Enter, ActivateConfigFromSwitcher, Close
    <2>3. CASE ClickTrigger \/ KeyOnTrigger \/ Escape \/ ClickOutside
      BY <2>1, <2>3 DEF ClickTrigger, KeyOnTrigger, Escape, ClickOutside, Close, Open
    <2>4. CASE Render \/ (\E q \in Queries : Search(q))
               \/ (\E delta \in {-1, 1} : Arrow(delta))
      BY <2>4 DEF Render, Search, Arrow
    <2>5. CASE \E n \in Names : ClickOption(n)
      BY <2>1, <2>5 DEF ClickOption, ActivateConfigFromSwitcher, Close
    <2>6. CASE \E list \in Lists : ListArrives(list)
      BY <2>6 DEF ListArrives
    <2>7. CASE UNCHANGED switcherVars
      BY <2>7 DEF switcherVars
    <2> QED
      BY <2>2, <2>3, <2>4, <2>5, <2>6, <2>7 DEF Next
  <1>3. ScreenInv /\ Histories => TypeOK
    BY DEF ScreenInv, Sound, Members, Screens, TypeOK
  <1> QED
    BY <1>1, <1>2, <1>3, ScreenAlways, PTL DEF Spec

\* A closed switcher whose list is the one it was closed on has the active
\* configuration highlighted.
Homed ==
    ~switcher.isOpen /\ unchanged /\ switcher.namedConfigs.active # NoName =>
        switcher.focusIndex
          = IndexIn(switcher.namedConfigs.active, switcher.namedConfigs.names)

\* Rendering a closed switcher leaves a highlight that is at home, and brings one
\* home that was taken away.
LEMMA RenderHomes ==
    ASSUME NEW s \in Loose, s.query = NoQuery,
           s.namedConfigs.active \in s.namedConfigs.names,
           s.focusIndex \in {-1, IndexIn(s.namedConfigs.active, s.namedConfigs.names)}
    PROVE  Mended(s).focusIndex = IndexIn(s.namedConfigs.active, s.namedConfigs.names)
  <1> DEFINE a == s.namedConfigs.active
             names == s.namedConfigs.names
  <1>1. Filtered(s) = names
    BY NoQueryFindsAll
  <1>2. IsFiniteSet(names) /\ names \subseteq Int
    BY <1>1, FilteredFacts
  <1>3. IndexIn(a, names) \in Indices(names)
    BY <1>2, IndexInRange
  <1> QED
    BY <1>1, <1>3, MendedFacts

LEMMA CloseHomes == ScreenInv /\ Homed /\ Close /\ UNCHANGED switcher.namedConfigs => Homed'
  <1> SUFFICES ASSUME ScreenInv, Homed, Close, ~switcher'.isOpen, unchanged',
                      switcher'.namedConfigs = switcher.namedConfigs,
                      switcher.namedConfigs.active # NoName
               PROVE  switcher'.focusIndex
                        = IndexIn(switcher.namedConfigs.active, switcher.namedConfigs.names)
    BY DEF Homed
  <1>1. /\ switcher \in Loose
        /\ switcher.namedConfigs.active \in switcher.namedConfigs.names
        /\ switcher.isOpen \in BOOLEAN
        /\ ~switcher.isOpen => switcher.query = NoQuery
    BY MembersLoose DEF ScreenInv, Sound, Members
  <1>2. CASE switcher.isOpen
    <2> DEFINE s == [switcher EXCEPT !.query = NoQuery, !.isOpen = FALSE,
                                     !.focusIndex = -1]
    <2>1. switcher' = Mended(s)
      BY <1>1, <1>2 DEF Close, SetConfigSwitcherOpen, RenderConfigSwitcher
    <2>2. s \in Loose /\ s.query = NoQuery /\ s.namedConfigs = switcher.namedConfigs
          /\ s.focusIndex = -1
      <3>1. NoQuery \in Queries /\ -1 \in Int /\ FALSE \in BOOLEAN
        BY SwitcherAssumption
      <3>2. s \in Loose
        BY <1>1, <3>1 DEF Loose
      <3> QED
        BY <1>1, <3>2 DEF Loose
    <2> QED
      BY <1>1, <2>1, <2>2, RenderHomes
  <1>3. CASE ~switcher.isOpen
    <2>1. switcher' = switcher /\ unchanged
      BY <1>1, <1>3 DEF Close, SetConfigSwitcherOpen
    <2> QED
      BY <1>3, <2>1 DEF Homed
  <1> QED
    BY <1>2, <1>3

\* A step leaves the list alone, or is an answer that replaces it.
LEMMA ListKept ==
    ScreenInv /\ Close => switcher'.namedConfigs = switcher.namedConfigs
  <1> SUFFICES ASSUME ScreenInv, Close
               PROVE  switcher'.namedConfigs = switcher.namedConfigs
    OBVIOUS
  <1> DEFINE s == [switcher EXCEPT !.query = NoQuery, !.isOpen = FALSE, !.focusIndex = -1]
  <1>1. switcher \in Loose
    BY MembersLoose DEF ScreenInv, Sound
  <1>2. s \in Loose /\ s.namedConfigs = switcher.namedConfigs
    <2>1. NoQuery \in Queries /\ -1 \in Int /\ FALSE \in BOOLEAN
      BY SwitcherAssumption
    <2>2. s \in Loose
      BY <1>1, <2>1 DEF Loose
    <2> QED
      BY <1>1, <2>2 DEF Loose
  <1>3. switcher' = switcher \/ switcher' = Mended(s)
    BY DEF Close, SetConfigSwitcherOpen, RenderConfigSwitcher
  <1> QED
    BY <1>2, <1>3, MendedFacts

\* A switcher that was open closes under a rendering only when there is no list.
LEMMA RenderStaysOpen ==
    ASSUME NEW s \in Loose, s.isOpen \/ s.namedConfigs.names = {},
           s.namedConfigs.active \in s.namedConfigs.names \union {NoName}
    PROVE  Mended(s).isOpen \/ Mended(s).namedConfigs.active = NoName
  <1>1. /\ Mended(s).namedConfigs = s.namedConfigs
        /\ Mended(s).isOpen = (s.isOpen /\ s.namedConfigs.names # {})
    BY MendedFacts
  <1> QED
    BY <1>1

\* The highlight is kept at home by every step that leaves the switcher closed.
LEMMA HomedStep == ScreenInv /\ Homed /\ [Next]_switcherVars => Homed'
  <1> SUFFICES ASSUME ScreenInv, Homed, [Next]_switcherVars PROVE Homed'
    OBVIOUS
  <1>1. /\ switcher \in Loose
        /\ switcher.namedConfigs.active \in switcher.namedConfigs.names \union {NoName}
        /\ screen.isOpen = switcher.isOpen
        /\ switcher.isOpen \in BOOLEAN
        /\ ~switcher.isOpen => switcher.query = NoQuery
    BY MembersLoose DEF ScreenInv, Sound, Members
  <1>2. Close => Homed'
    BY CloseHomes, ListKept
  <1>3. switcher'.isOpen \/ switcher'.namedConfigs.active = NoName => Homed'
    BY DEF Homed
  <1>4. ASSUME Open PROVE Homed'
    <2> DEFINE nextOpen == switcher.namedConfigs.names # {}
               i == IF nextOpen THEN switcher.focusIndex ELSE -1
               s == [switcher EXCEPT !.query = switcher.query, !.isOpen = nextOpen,
                                     !.focusIndex = i]
    <2>1. UNCHANGED <<switcher, unchanged>> \/ switcher' = Mended(s)
      BY <1>4 DEF Open, SetConfigSwitcherOpen, RenderConfigSwitcher
    <2>2. s \in Loose /\ s.namedConfigs = switcher.namedConfigs /\ s.isOpen = nextOpen
      <3>1. i \in Int /\ nextOpen \in BOOLEAN
        BY <1>1 DEF Loose
      <3> HIDE DEF i, nextOpen
      <3> QED
        BY <1>1, <3>1 DEF Loose
    <2>3. Mended(s).isOpen \/ Mended(s).namedConfigs.active = NoName
      BY <1>1, <2>2, RenderStaysOpen
    <2>4. CASE UNCHANGED <<switcher, unchanged>>
      BY <2>4 DEF Homed
    <2>5. CASE switcher' = Mended(s)
      BY <1>3, <2>3, <2>5
    <2> QED
      BY <2>1, <2>4, <2>5
  <1>5. CASE ClickTrigger \/ KeyOnTrigger
    BY <1>2, <1>4, <1>5 DEF ClickTrigger, KeyOnTrigger
  <1>6. CASE Escape \/ Enter \/ ClickOutside \/ \E n \in Names : ClickOption(n)
    BY <1>2, <1>6 DEF Escape, Enter, ClickOutside, ClickOption, ActivateConfigFromSwitcher
  <1>7. CASE Render
    <2>1. switcher' = Mended(switcher) /\ unchanged' = unchanged
      BY <1>7 DEF Render, RenderConfigSwitcher
    <2>2. CASE switcher.isOpen
      BY <1>1, <1>3, <2>1, <2>2, RenderStaysOpen
    <2>3. CASE ~switcher.isOpen
      <3>1. switcher'.namedConfigs = switcher.namedConfigs
        BY <1>1, <2>1, MendedFacts
      <3>2. SUFFICES ASSUME unchanged, switcher.namedConfigs.active # NoName
                     PROVE  Homed'
        BY <2>1, <3>1 DEF Homed
      <3>3. switcher.focusIndex
              = IndexIn(switcher.namedConfigs.active, switcher.namedConfigs.names)
        BY <2>3, <3>2 DEF Homed
      <3>4. Mended(switcher).focusIndex
              = IndexIn(switcher.namedConfigs.active, switcher.namedConfigs.names)
        BY <1>1, <2>3, <3>2, <3>3, RenderHomes
      <3> QED
        BY <2>1, <3>1, <3>4 DEF Homed
    <2> QED
      BY <2>2, <2>3
  <1>8. ASSUME NEW q \in Queries, Search(q) PROVE Homed'
    <2> DEFINE s == [switcher EXCEPT !.query = q, !.focusIndex = 0]
    <2>1. q \in Queries /\ 0 \in Int /\ switcher.isOpen
      BY <1>1, <1>8 DEF Search
    <2>2. s \in Loose /\ s.namedConfigs = switcher.namedConfigs
          /\ s.isOpen = switcher.isOpen
      BY <1>1, <2>1 DEF Loose
    <2>3. switcher' = Mended(s)
      BY <1>8 DEF Search, RenderConfigSwitcher
    <2> QED
      BY <1>1, <1>3, <2>1, <2>2, <2>3, RenderStaysOpen
  <1>9. ASSUME NEW delta \in {-1, 1}, Arrow(delta) PROVE Homed'
    <2> DEFINE s == [switcher EXCEPT !.focusIndex = FocusMoved(switcher, delta)]
    <2>1. switcher.isOpen /\ FocusMoved(switcher, delta) \in Int
      BY <1>1, <1>9, FocusMovedInt DEF Arrow
    <2>2. s \in Loose /\ s.namedConfigs = switcher.namedConfigs
          /\ s.isOpen = switcher.isOpen
      BY <1>1, <2>1 DEF Loose
    <2>3. switcher' = Mended(s)
      BY <1>9 DEF Arrow, RenderConfigSwitcher
    <2> QED
      BY <1>1, <1>3, <2>1, <2>2, <2>3, RenderStaysOpen
  <1>10. CASE \E list \in Lists : ListArrives(list)
    BY <1>10 DEF ListArrives, Homed
  <1>11. CASE UNCHANGED switcherVars
    BY <1>11 DEF switcherVars, Homed
  <1> QED
    BY <1>5, <1>6, <1>7, <1>8, <1>9, <1>10, <1>11 DEF Next

\* A switcher that opens on the list it was closed on highlights the configuration
\* that is active.
THEOREM OpensHome == Spec => OpensOnActive
  <1>1. Init => Homed
    BY DEF Init, Homed
  <1>2. Spec => []Homed
    BY <1>1, HomedStep, ScreenAlways, PTL DEF Spec
  <1>3. ScreenInv /\ Homed /\ [Next]_switcherVars =>
          [~switcher.isOpen /\ switcher'.isOpen /\ unchanged
             /\ switcher.namedConfigs.active # NoName
           => Nth(screen'.focused, screen'.options) = switcher.namedConfigs.active]_switcherVars
    <2> SUFFICES ASSUME ScreenInv, Homed, Next, ~switcher.isOpen, switcher'.isOpen,
                        unchanged, switcher.namedConfigs.active # NoName
                 PROVE  Nth(screen'.focused, screen'.options) = switcher.namedConfigs.active
      OBVIOUS
    <2> DEFINE a == switcher.namedConfigs.active
               names == switcher.namedConfigs.names
               s == [switcher EXCEPT !.query = switcher.query, !.isOpen = TRUE,
                                     !.focusIndex = switcher.focusIndex]
    <2>1. /\ switcher \in Loose /\ a \in names /\ screen.isOpen = FALSE
          /\ switcher.isOpen = FALSE
          /\ switcher.query = NoQuery /\ switcher.focusIndex = IndexIn(a, names)
      BY MembersLoose DEF ScreenInv, Sound, Homed, Members
    <2>2. Open
      <3>1. ~Close
        BY <2>1 DEF Close, SetConfigSwitcherOpen
      <3>2. ~Render
        BY <2>1, MendedFacts DEF Render, RenderConfigSwitcher
      <3>3. ASSUME NEW list \in Lists, ListArrives(list) PROVE FALSE
        <4> DEFINE t == [switcher EXCEPT !.namedConfigs = list]
        <4>1. t \in Loose /\ t.isOpen = FALSE
          BY <2>1, <3>3 DEF Loose
        <4>2. Mended(t).isOpen = FALSE
          BY <4>1, MendedFacts
        <4> QED
          BY <3>3, <4>1, <4>2 DEF ListArrives, RenderConfigSwitcher
      <3> QED
        BY <2>1, <3>1, <3>2, <3>3
           DEF Next, ClickTrigger, KeyOnTrigger, Escape, Enter, ClickOption, ClickOutside,
               Search, Arrow
    <2>3. switcher' = Mended(s) /\ screen' = Shown(Mended(s))
      BY <2>1, <2>2 DEF Open, SetConfigSwitcherOpen, RenderConfigSwitcher
    <2>4. s \in Loose /\ s.namedConfigs = switcher.namedConfigs /\ s.query = NoQuery
          /\ s.focusIndex = IndexIn(a, names) /\ s.isOpen = TRUE
      BY <2>1 DEF Loose
    <2>5. Mended(s).focusIndex = IndexIn(a, names)
      BY <2>1, <2>4, RenderHomes
    <2>6. /\ Mended(s) \in Loose /\ Mended(s).namedConfigs = switcher.namedConfigs
          /\ Mended(s).query = NoQuery
      BY <2>1, <2>4, MendedFacts
    <2>7. Filtered(Mended(s)) = names
      BY <2>6, NoQueryFindsAll
    <2>8. IsFiniteSet(names) /\ names \subseteq Int
      BY <2>6, <2>7, FilteredFacts
    <2>9. screen'.focused = IndexIn(a, names) /\ screen'.options = names
      BY <2>3, <2>5, <2>7 DEF Shown
    <2> QED
      BY <2>1, <2>8, <2>9, NthOfIndex
  <1> QED
    BY <1>2, <1>3, ScreenAlways, PTL DEF Spec, OpensOnActive
=============================================================================
