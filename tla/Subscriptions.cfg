SPECIFICATION BusesSpec
CONSTANTS
    a1 = a1
    a2 = a2
    t1 = t1
    b1 = b1
    b2 = b2
    None = None
    Buses = {b1, b2}
    Addresses = {a1, a2}
    Valid = {a1}
    Transactions = {t1}
    Blocks = {k1}
    Updates = {u1}
    MaxCalls <- MCMaxCalls
    MaxArrivals = 2
    AddressesOf <- MCAddressesOf
CHECK_DEADLOCK FALSE
INVARIANT ListsFollowClients
INVARIANT NotifiedOnce
INVARIANT NothingMissed
PROPERTY OnlyWhoAsked
