SPECIFICATION Spec
CONSTANTS
    Requests = {q1, q2, q3, q4}
    Emails = {e1, e2}
    Clients = {e2}
    Registered = {e2}
    Headers = {h1}
    Sent <- Mixed
    Threads = 2
    Connections = 2
    Null = Null
    Earlier = Earlier
    q1 = q1  q2 = q2  q3 = q3  q4 = q4  e1 = e1  e2 = e2  h1 = h1
INVARIANTS AccessLogTagged
CHECK_DEADLOCK FALSE
