--------------------------- MODULE MCConfigEditor ---------------------------
EXTENDS EditorProperties, TLC

CONSTANTS t1, t2, k1, s1, f1, f2

MCOptions == [backend |-> t1, apiKey |-> Blank, store |-> s1]
Same(n) == n

Scenario(mishaps, names, keys) == [mishaps |-> mishaps, names |-> names, keys |-> keys]

CalmScenario == Scenario({}, Inputs, Keys)

\* What goes wrong has fewer names and no API keys.
MCScenarios ==
    {CalmScenario,
     Scenario({"hasty"}, {2}, {Blank}),
     Scenario({"fail", "elsewhere"}, {NoName, 2}, {Blank}),
     Scenario(AllMishaps, {1}, {Blank})}

CalmScenarios == {CalmScenario}

FlowSymmetry == Permutations(Flows)
=============================================================================
