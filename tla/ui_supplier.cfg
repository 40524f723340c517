SPECIFICATION Spec
CONSTANTS
    Clients = {c1}
    Suppliers = {s1, s2}
    Requests = {r1}
    Amounts = {100}
    Currencies = {COP}
    Null = Null
    Me = s1
    Calls = {x1, x2}
    Lossy = FALSE
    MaxProposals = 5
    MaxIntents = 2
    x1 = x1  x2 = x2
    c1 = c1  s1 = s1  s2 = s2  r1 = r1  r2 = r2
SYMMETRY Symmetric
INVARIANTS TypeOK IInv AcceptedAsShown OutdatedByMeOnly
PROPERTIES RefusedOnlyIfStale
CHECK_DEADLOCK FALSE
