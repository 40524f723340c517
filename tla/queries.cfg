SPECIFICATION Spec
CONSTANTS
    Clients = {c1}
    Suppliers = {s1}
    Requests = {r1, r2, r3}
    Amounts = {100}
    Currencies = {COP}
    Null = Null
    Limit = 1
    MaxProposals = 2
    c1 = c1  s1 = s1  s2 = s2  r1 = r1  r2 = r2  r3 = r3
SYMMETRY Symmetric
INVARIANTS TypeOK DetailIsSnapshot MissedOnlyForDepartures PagingInv
