SPECIFICATION Spec
CONSTANTS
    None = None
    Listeners = {udp}
    Conns = {c1}
    Queries = {q1, q2}
    MaxInflightRequests = 4
INVARIANT WholeFrames
\* After CloseListeners the proxy stops once its connections are closed.
CHECK_DEADLOCK FALSE
