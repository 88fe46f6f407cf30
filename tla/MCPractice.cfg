SPECIFICATION Spec
CONSTANTS
    Prices <- MCPrices
    StartingEquity = 20
    HalfSpread = 1
    TakerFee = 5
    MakerFee = 2
    MaintenanceRate = 10
    Unit = 2
    Rate = 100
    StartLeverage = 2
    MaxLeverage = 2
    MaxSteps = 2
    Request <- MCRequest
    MaxOrders = 3
    NoPrice = NoPrice
INVARIANTS
    AccountSound
    RiskCurrent
    FillsAccounted
PROPERTIES
    TerminalOrdersFrozen
    ReduceOnlyReduces
    ExposureCovered
\* A completed or liquidated run takes no further command.
CHECK_DEADLOCK FALSE
