-------------------------------- MODULE MCProxy --------------------------------
(* Small instances of Proxy for TLC.                                         *)
EXTENDS Proxy, TLC

CONSTANTS a1, a2, x1, x2, g1, s1, src, q1, q2, key1, key2

\* A Claude name with a Cursor twin: the chain of README's "claude-opus-5".
claude_opus == [rule |-> "native", provider |-> "claude", twin |-> TRUE,
                slug |-> NoSlug, listedBy |-> {"claude"}]
grok == [rule |-> "native", provider |-> "grok", twin |-> TRUE,
         slug |-> NoSlug, listedBy |-> {"grok"}]
cursor_grok == [rule |-> "cursor", provider |-> "grok", twin |-> TRUE,
                slug |-> NoSlug, listedBy |-> {"cursor"}]
composer == [rule |-> "cursor", provider |-> "cursor", twin |-> FALSE,
             slug |-> NoSlug, listedBy |-> {"cursor"}]
source_model == [rule |-> "catalog", provider |-> "openai", twin |-> FALSE,
                 slug |-> src, listedBy |-> {"openai"}]
auto == [rule |-> "catalog", provider |-> "cursor", twin |-> FALSE,
         slug |-> NoSlug, listedBy |-> {"cursor", "openai"}]
opencode == [rule |-> "opencode", provider |-> "opencode", twin |-> FALSE,
             slug |-> NoSlug, listedBy |-> {"opencode"}]
codex_id == [rule |-> "id", provider |-> "codex", twin |-> FALSE,
             slug |-> NoSlug, listedBy |-> {}]

AllFaults == {"store", "record", "crash"}
NoFaults == {}

\* Proxy.cfg: two requests of one key, two Claude credentials and a Cursor one.
RaceModels == {claude_opus}
RaceProviderOf == (a1 :> "claude") @@ (a2 :> "claude") @@ (x1 :> "cursor")
RaceSlugOf == [c \in {a1, a2, x1} |-> NoSlug]
RaceKeyOf == [r \in Requests |-> key1]
RaceSymmetry == Permutations({a1, a2})
RaceScope == (key1 :> Providers)

\* ProxyRules.cfg: one request, every rule of the chain, a key with a scope.
RuleModels == {grok, cursor_grok, composer, source_model, auto, opencode, codex_id}
RuleProviderOf == (x1 :> "cursor") @@ (x2 :> "cursor") @@ (g1 :> "grok") @@ (s1 :> "openai")
RuleSlugOf == [c \in {x1, x2, g1, s1} |-> IF c = s1 THEN src ELSE NoSlug]
RuleKeyOf == (q1 :> key1)
RuleScope == (key1 :> Providers \ {"codex"})
================================================================================
