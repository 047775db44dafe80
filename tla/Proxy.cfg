CONSTANTS
    a1 = a1  a2 = a2  x1 = x1  x2 = x2  g1 = g1  s1 = s1  src = src
    q1 = q1  q2 = q2  key1 = key1  key2 = key2
    None = None
    NoSlug = NoSlug
    Creds = {a1, a2, x1}
    ProviderOf <- RaceProviderOf
    SlugOf <- RaceSlugOf
    ApiKeys = {}
    Keys = {key1}
    Requests = {q1, q2}
    KeyOf <- RaceKeyOf
    Scope <- RaceScope
    Capped = {}
    Streaming = {q1}
    Toggles = {FALSE}
    Models <- RaceModels
    Faults <- NoFaults
SYMMETRY RaceSymmetry
SPECIFICATION Spec
INVARIANTS
    TypeOK
    TriedOnce
    StickyServed
    MeteredOnce
CHECK_DEADLOCK FALSE
