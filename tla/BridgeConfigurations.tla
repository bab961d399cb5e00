------------------------ MODULE BridgeConfigurations ------------------------
(***************************************************************************)
(* The data of the proxy configurations of BridgeLM: the options a         *)
(* configuration holds, the partial updates a caller may send, and the     *)
(* one function that merges the two.  Shared by the detailed catalog       *)
(* (ConfigCatalog) and by the abstract one (SavedConfigurations).          *)
(***************************************************************************)
EXTENDS Naturals

CONSTANTS
    Names,      \* keys of the catalog: names that SQLite's NOCASE tells apart,
                \* numbered in the order of ORDER BY name COLLATE NOCASE
    Fold(_),    \* the class of a name under StringComparison.OrdinalIgnoreCase
    Backends,   \* non-blank values of backend name, base URL and key header
    ApiKeys,    \* non-empty API keys (and default header maps)
    Stores,     \* non-blank connection strings (and positive request limits)
    Blank,      \* the empty string
    Absent      \* a member the JSON payload does not carry

ASSUME NamesAssumption == Names \subseteq Nat \ {0}

\* No name at all: a name ValidateName refuses, or no copyFromName.
NoName == 0

(***************************************************************************)
(* BridgeRuntimeOptions.  Its members fall in three groups that ApplyUpdate *)
(* treats alike; one representative of each is kept.                       *)
(***************************************************************************)
Options == [backend : Backends, apiKey : ApiKeys \union {Blank}, store : Stores]

\* BridgeConfigurationUpdate: every member may be absent or blank.
Updates == [backend : Backends \union {Blank, Absent},
            apiKey  : ApiKeys \union {Blank, Absent},
            store   : Stores \union {Blank, Absent}]

\* A blank text keeps the current value, exactly as an absent one does.
KeepIfBlank(given, kept) == IF given \in {Blank, Absent} THEN kept ELSE given

\* The API key is the exception: an empty one clears the secret.
ApplyUpdate(current, update) ==
    [backend |-> KeepIfBlank(update.backend, current.backend),
     apiKey  |-> IF update.apiKey = Absent THEN current.apiKey ELSE update.apiKey,
     store   |-> KeepIfBlank(update.store, current.store)]

\* How the service compares names in memory, as opposed to the primary key.
SameName(m, n) == Fold(m) = Fold(n)
=============================================================================
