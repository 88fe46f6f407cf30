SPECIFICATION StoreSpec
CONSTANTS
    SessionId = {s1}
    Principal = {p1}
    m1 = m1
    r1 = r1
    h1 = h1
    F0 = F0
    Manifest = {m1}
    RulesetId = {r1}
    RulesetHash = {h1}
    Tier = {F0}
    Setup <- MCSetup
    Covering <- MCCovering
    MaxVersion = 3
    MaxCommits = 1
    NoPrincipal = NoPrincipal
    NoRuleset = NoRuleset
    NoSetup = NoSetup
    NoSession = NoSession
    Writer = {w1, w2}
    Key = {k1, k2}
    PayloadHash = {a, b}
    MaxEvents = 2
    WriterLead = 1
    NoCall = NoCall
INVARIANTS
    StoreSound
    KeysIdempotent
SYMMETRY Symmetry
\* Completed sessions and exhausted versions end a run.
CHECK_DEADLOCK FALSE
