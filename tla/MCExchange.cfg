\* Three orders on two symbols: of every kind at one size and price, or fills of three sizes (zero is not rejected) at two prices.
CONSTANTS
    Symbols = {BTC, ETH}
    Clients = {c1, c2, c3}
    OrderTypes = {"MARKET", "LIMIT"}
    Quantities = {0, 1, 2}
    Prices = {3, 5}
    StartPrice = 3
    NoPosition = NoPosition
    MaxOrders = 3
SPECIFICATION Spec
SYMMETRY Symmetry
INVARIANTS TypeOK NoDoubleFill ClientIndex ProtectionIsNewest PositionIsFills
    PnLAccounting
PROPERTIES OrderFinality
CONSTRAINT Explored
CHECK_DEADLOCK FALSE
