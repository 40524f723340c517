SPECIFICATION Spec
CONSTANTS
    Clients = {c1}
    Suppliers = {s1}
    Requests = {r1, r2}
    Amounts = {100}
    Currencies = {COP}
    Null = Null
    Me = c1
    Calls = {x1, x2}
    Lossy = TRUE
    MaxProposals = 3
    MaxIntents = 1
    x1 = x1  x2 = x2
    c1 = c1  s1 = s1  s2 = s2  r1 = r1  r2 = r2
SYMMETRY Symmetric
INVARIANTS OneEffectPerIntent
