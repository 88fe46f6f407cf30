SPECIFICATION LiveSpec
CONSTANTS
    c1 = c1
    c2 = c2
    r1 = r1
    r2 = r2
    r3 = r3
    r4 = r4
    Plan <- MCPlan
    Raw = {r1, r2, r3, r4}
    Size <- MCSize
    Cost <- MCCost
    Malformed = {r4}
    Event <- MCEvent
    Normalize <- MCNormalize
    MaxRequests = 3
    MaxBytes = 4
    MaxCost = 4
    MaxFaults = 2
    MaxFailures = 1
    NoRaw = NoRaw
    NoOutput = NoOutput
INVARIANTS
    DiskSound
    OutputFromCheckpoint
    EnvelopeBeforeNetwork
PROPERTIES
    ImplementsJob
    JobFinishes
