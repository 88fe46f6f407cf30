SPECIFICATION Spec
CONSTANTS
    Price <- Prices
    NoPrice <- Nowhere
    NoSequence <- Never
    NoQuote = NoQuote
    Tier = {"F0", "F1", "F2"}
    InitialPosition = 2
    Request <- Requests
    Replacement <- Replacements
    Quote <- Quotes
    Bar <- Bars
    Trade <- Trades
    FirstDepth <- FirstBook
    Feed <- VenueFeed
    Cap = {1, 9}
    Slippage = {1}
    MaxOrders = 2
    MaxRevision = 1
    MaxSequence = 2
INVARIANTS
    OrdersSound
    PositionAccounted
    DepthTrusted
PROPERTIES
    OrdersMonotone
CHECK_DEADLOCK FALSE
