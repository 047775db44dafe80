CONSTANTS
    key1 = key1  key2 = key2  q1 = q1  q2 = q2  q3 = q3
    NoKey = NoKey
    Keys = {key1, key2}
    Cap <- SmallCaps
    Requests = {q1, q2, q3}
    MaxTokens = 2
SYMMETRY Slots
SPECIFICATION Spec
INVARIANTS
    Overshoot
