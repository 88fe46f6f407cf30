SPECIFICATION Spec
CONSTANTS
    SessionId = {s1, s2, s3}
    Principal = {p1}
    m1 = m1
    r1 = r1
    h1 = h1
    h2 = h2
    F0 = F0
    F1 = F1
    Manifest = {m1}
    RulesetId = {r1}
    RulesetHash = {h1, h2}
    Tier = {F0, F1}
    Setup <- MCSetup
    Covering <- MCCovering
    MaxVersion = 3
    MaxCommits = 2
    NoPrincipal = NoPrincipal
    NoRuleset = NoRuleset
    NoSetup = NoSetup
    NoSession = NoSession
INVARIANTS
    LogSound
    FrontierTraced
    FrontierInWindow
    Materializable
    RulesetsPinned
    EligibilityCoversPin
PROPERTIES
    AppendOnly
    ImplementsClock
SYMMETRY Symmetry
\* Completed sessions and exhausted versions end a run.
CHECK_DEADLOCK FALSE
