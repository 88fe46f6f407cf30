SPECIFICATION IntakeSpec
CONSTANTS
    SessionId = {s1}
    Principal = {p1}
    m1 = m1
    r1 = r1
    h1 = h1
    F0 = F0
    Manifest = {m1}
    RulesetId = {r1}
    RulesetHash = {h1}
    Tier = {F0}
    Setup <- MCSetup
    Covering <- MCCovering
    MaxVersion = 4
    MaxCommits = 1
    NoPrincipal = NoPrincipal
    NoRuleset = NoRuleset
    NoSetup = NoSetup
    NoSession = NoSession
    Client = {c1}
    Key = {k1}
    Body = {b1}
    QuoteTimes <- MCQuoteTimes
    ClientLead = 0
    MaxResends = 1
    NoQuote = NoQuote
    NoCall = NoCall
INVARIANTS
    RepeatsReturnOriginal
SYMMETRY Symmetry
\* Completed sessions and exhausted versions end a run.
CHECK_DEADLOCK FALSE
