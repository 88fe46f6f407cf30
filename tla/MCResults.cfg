SPECIFICATION ResultsSpec
CONSTANTS
    s1 = s1
    m1 = m1
    r1 = r1
    h1 = h1
    F0 = F0
    f1 = f1
    f2 = f2
    SessionId = {s1}
    Principal = {p1}
    Manifest = {m1}
    RulesetId = {r1}
    RulesetHash = {h1}
    Tier = {F0}
    Setup <- MCSetup
    Covering <- MCCovering
    MaxVersion = 5
    MaxCommits = 1
    NoPrincipal = NoPrincipal
    NoRuleset = NoRuleset
    NoSetup = NoSetup
    NoSession = NoSession
    CommitmentId = {c1, c2}
    Secret = {1, 4}
    Nonce = {n1}
    EpisodeList <- MCEpisodeList
    Hmac <- MCHmac
    Space = 5
    MaxCounter = 2
    MaxPrepares = 2
    NoSecret = NoSecret
    NoCommitment = NoCommitment
    Finalizer = {f1, f2}
    Trace <- MCTrace
    NoResult = NoResult
    NoFinalize = NoFinalize
INVARIANTS
    DrawsSealed
    ResultFaithful
    VerifierAccepts
PROPERTIES
    WriteOnce
SYMMETRY Symmetry
\* A session at its last version and a refused caller that returned end a run.
CHECK_DEADLOCK FALSE
