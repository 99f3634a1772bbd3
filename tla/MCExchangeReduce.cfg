CONSTANTS
    Symbols = {BTC}
    Clients = {c1, c2, c3}
    OrderTypes = {"MARKET"}
    Quantities = {1, 2}
    Prices = {3, 5}
    StartPrice = 3
    NoPosition = NoPosition
    MaxOrders = 3
SPECIFICATION Spec
CHECK_DEADLOCK FALSE
PROPERTY ReduceOnlyReduces
