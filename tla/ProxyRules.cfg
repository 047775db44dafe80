CONSTANTS
    a1 = a1  a2 = a2  x1 = x1  x2 = x2  g1 = g1  s1 = s1  src = src
    q1 = q1  q2 = q2  key1 = key1  key2 = key2
    None = None
    NoSlug = NoSlug
    Creds = {x1, x2, g1, s1}
    ProviderOf <- RuleProviderOf
    SlugOf <- RuleSlugOf
    ApiKeys = {x2}
    Keys = {key1}
    Requests = {q1}
    KeyOf <- RuleKeyOf
    Scope <- RuleScope
    Capped = {key1}
    Streaming = {q1}
    Toggles = {TRUE, FALSE}
    Models <- RuleModels
    Faults <- AllFaults
SPECIFICATION FairSpec
INVARIANTS
    HopsInOrder
    FailoverComplete
PROPERTIES
    Answered
CHECK_DEADLOCK FALSE
