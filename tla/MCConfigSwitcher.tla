-------------------------- MODULE MCConfigSwitcher --------------------------
EXTENDS SwitcherProperties

\* A query is the set of configurations it finds, or a blank that finds all.
MCQueries == {"", " ", "some", "last", "none"}
MCMatches(q, n) ==
    CASE q \in {"", " "} -> TRUE
      [] q = "some" -> n >= 2
      [] q = "last" -> n = 3
      [] q = "none" -> FALSE
=============================================================================
