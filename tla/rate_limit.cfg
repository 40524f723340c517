SPECIFICATION Spec
CONSTANTS
    Threads = {t1, t2, t3}
    Addresses = {ip1}
    Limit = 2
    Window = 1
    Second = 2
    MaxClock = 5
    t1 = t1  t2 = t2  t3 = t3  ip1 = ip1  ip2 = ip2
SYMMETRY Symmetric
INVARIANTS IInv BucketBounded Budget RetryAfterKept
