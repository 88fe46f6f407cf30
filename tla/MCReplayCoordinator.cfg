SPECIFICATION FairSpec
CONSTANTS
    SessionId = {s1}
    Principal = {p1}
    whole = whole
    gapped = gapped
    late = late
    r1 = r1
    h1 = h1
    F0 = F0
    Manifest = {whole, gapped}
    RulesetId = {r1}
    RulesetHash = {h1}
    Tier = {F0}
    Setup <- MCSetup
    Covering <- MCCovering
    MaxVersion = 4
    MaxCommits = 1
    NoPrincipal = NoPrincipal
    NoRuleset = NoRuleset
    NoSetup = NoSetup
    NoSession = NoSession
    Worker = {w1, w2}
    Source <- MCSource
    BatchSize = 2
    NoCheckpoint = NoCheckpoint
INVARIANTS
    CheckpointsSound
    ResultsDurable
PROPERTIES
    CallsReturn
\* Completed sessions and exhausted versions end a run.
CHECK_DEADLOCK FALSE
