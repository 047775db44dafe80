----------------------------- MODULE ProviderChain -----------------------------
(***************************************************************************)
(* Which providers a model name leads to, and which stored credentials of   *)
(* a provider serve it, in which order: resolveProviderChain and            *)
(* pickCredentials of internal/proxy/proxy.go.                             *)
(*                                                                         *)
(* A model name is abstracted to the record of what the code asks about it: *)
(*   rule     which test of resolveProviderChain the name meets: "opencode" *)
(*            (opencode/...), "cursor" (cursor/..., -fast, composer-...),   *)
(*            "native" (claude-, gpt-, o1, o3, o4, grok-), "id" (the name   *)
(*            of a provider), "catalog" (anything else);                    *)
(*   provider the native provider, the provider named, or, for a Cursor     *)
(*            name, "grok" when it contains "grok" and maps to one;         *)
(*   twin     whether the name has a counterpart on the other side          *)
(*            (MapNativeToWire, MapWireToNative);                           *)
(*   slug     the slug in front of its first "/", NoSlug without one;       *)
(*   listedBy the providers whose catalog lists exactly this name.          *)
(***************************************************************************)
EXTENDS Integers, Sequences, FiniteSets, SequencesExt

CONSTANTS
    Creds,       \* credential ids
    ProviderOf,  \* the provider of each credential
    SlugOf,      \* the source slug of each credential of "openai"
    ApiKeys,     \* Cursor credentials stored as an api key, not from a login
    NoSlug

Providers == {"claude", "codex", "grok", "cursor", "openai", "opencode"}

ASSUME ChainAssumption ==
    /\ ProviderOf \in [Creds -> Providers]
    /\ DOMAIN SlugOf = Creds
    /\ \A c \in Creds : ProviderOf[c] # "openai" => SlugOf[c] = NoSlug
    /\ ApiKeys \subseteq {c \in Creds : ProviderOf[c] = "cursor"}

Model == [rule : {"opencode", "cursor", "native", "id", "catalog"},
          provider : Providers, twin : BOOLEAN,
          slug : {SlugOf[c] : c \in Creds} \cup {NoSlug}, listedBy : SUBSET Providers]

Connected(rows, p) == \E c \in ToSet(rows) : ProviderOf[c] = p

MatchesSource(c, m) ==
    /\ ProviderOf[c] = "openai"
    /\ SlugOf[c] # NoSlug
    /\ SlugOf[c] = m.slug

\* The entries of s that are in S, in the order of s.
Kept(s, S) ==
    LET at == {i \in DOMAIN s : s[i] \in S}
        nth(k) == CHOOSE i \in at : Cardinality({j \in at : j <= i}) = k
    IN  [k \in 1..Cardinality(at) |-> s[nth(k)]]

HopIf(p, condition) == IF condition THEN <<p>> ELSE << >>

\* A Cursor name: Cursor if connected, and only behind it Grok, when the panel
\* toggle is on and a Grok credential is stored.
CursorHops(m, rows, failover) ==
    LET cursorOK == Connected(rows, "cursor")
    IN  HopIf("cursor", cursorOK)
          \o HopIf("grok", /\ cursorOK /\ failover
                           /\ m.provider = "grok" /\ m.twin /\ Connected(rows, "grok"))

\* A native name: its own provider, connected or not, and behind it Cursor.
NativeHops(m, rows, failover) ==
    <<m.provider>> \o HopIf("cursor", /\ Connected(rows, "cursor") /\ m.twin
                                      /\ m.provider = "grok" => failover)

\* The first stored credential, in the order of the vault, whose catalog has it.
CatalogHops(m, rows) ==
    LET listing == m.listedBy \ {"openai", "opencode"}
        serving == Kept(rows, {c \in Creds : ProviderOf[c] \in listing})
    IN  IF serving = << >> THEN << >> ELSE <<ProviderOf[Head(serving)]>>

ResolveChain(m, rows, failover) ==
    LET sourced == m.rule # "opencode" /\ \E c \in ToSet(rows) : MatchesSource(c, m)
    IN  IF sourced THEN <<"openai">>
        ELSE CASE m.rule = "opencode" -> HopIf("opencode", Connected(rows, "opencode"))
               [] m.rule = "cursor"   -> CursorHops(m, rows, failover)
               [] m.rule = "native"   -> NativeHops(m, rows, failover)
               [] m.rule = "id"       -> <<m.provider>>
               [] m.rule = "catalog"  -> CatalogHops(m, rows)

Serves(c, p, m) == ProviderOf[c] = p /\ (p = "openai" => MatchesSource(c, m))

\* The credentials of a hop as stored, Cursor logins in front of Cursor api keys.
Stored(p, m, rows) ==
    LET serving == {c \in Creds : Serves(c, p, m)}
    IN  Kept(rows, serving \ ApiKeys) \o Kept(rows, serving \cap ApiKeys)

\* Mutated: the preferred credential is put in front but not taken out behind.
PickTwice(p, m, rows, preferred) ==
    IF preferred \in ToSet(Stored(p, m, rows))
    THEN <<preferred>> \o Stored(p, m, rows)
    ELSE Stored(p, m, rows)

\* pickCredentials: the credential that last served the key goes first.
PickCredentials(p, m, rows, preferred) ==
    LET stored == Stored(p, m, rows)
    IN  IF preferred \in ToSet(stored)
        THEN <<preferred>> \o Kept(stored, Creds \ {preferred})
        ELSE stored
================================================================================
