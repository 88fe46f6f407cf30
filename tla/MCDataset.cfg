SPECIFICATION DatasetSpec
CONSTANTS
    Tick = 2
    Increment = 1
    MaxGap = 1
    MaxStaleness = 1
    DayLength = 4
    WeekLength = 3
    MonthStart <- MCMonthStart
    TradeRow <- MCTradeRow
    QuoteRow <- MCQuoteRow
    BookRow <- MCBookRow
    DepthRow <- MCDepthRow
    PrintRow <- MCPrintRow
    DerivativeRow <- MCDerivativeRow
    StreamEvent <- MCStreamEvent
    KnownGap <- MCKnownGap
    Calendars <- MCCalendars
    Intervals <- MCIntervals
    Span <- MCSpan
    Entitlements <- MCEntitlements
    Requests <- MCRequests
    Requirements <- MCRequirements
    Limit <- MCLimit
INVARIANTS
    StreamSound
    BarsSound
    CatalogueExact
CHECK_DEADLOCK FALSE
