\* No stream: creations, cancellations and deletions in every order.
CONSTANTS
    Owner = {a, b, c}
    BoxId = {x, y}
    Entry = {e1, e2, e3, e4, e5}
    Stream = {}
    NoEntry = NoEntry
SPECIFICATION Spec
SYMMETRY ExchangeSymmetry
INVARIANT ExchangeIsSound
PROPERTY ImplementsExchange
CHECK_DEADLOCK FALSE
