SPECIFICATION Spec
CONSTANTS
    Clients = {c1}
    Suppliers = {s1, s2}
    Requests = {r1}
    Amounts = {100}
    Currencies = {COP}
    Null = Null
    Workers = {w1, w2}
    Keys = {}
    MaxProposals = 2
    w1 = w1  w2 = w2  w3 = w3
    c1 = c1  c2 = c2  s1 = s1  s2 = s2  s3 = s3  r1 = r1  r2 = r2  k1 = k1
SYMMETRY SymmetricThreads
INVARIANTS OneTerminalEntry
