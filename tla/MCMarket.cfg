SPECIFICATION MarketSpec
CONSTANTS
    s1 = s1
    p1 = p1
    p2 = p2
    m1 = m1
    r1 = r1
    h1 = h1
    F0 = F0
    a = a
    b = b
    c = c
    d = d
    SessionId = {s1}
    Principal = {p1, p2}
    Manifest = {m1}
    RulesetId = {r1}
    RulesetHash = {h1}
    Tier = {F0}
    Setup <- MCSetup
    Covering <- MCCovering
    MaxVersion = 4
    MaxCommits = 1
    NoPrincipal = NoPrincipal
    NoRuleset = NoRuleset
    NoSetup = NoSetup
    NoSession = NoSession
    Reader = {a, b, c, d}
    Query <- MCQuery
    Source <- MCSource
    PageSize = 2
    MaxPolls = 3
    NoCursor = NoCursor
    NoPage = NoPage
    NoPoll = NoPoll
INVARIANTS
    PagesSound
    NothingAhead
\* A completed session whose clients have asked all they may ends a run.
CHECK_DEADLOCK FALSE
