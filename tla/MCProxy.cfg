SPECIFICATION FairSpec
CONSTANTS
    None = None
    Listeners = {udp}
    Conns = {c1, c2}
    Queries = {q1, q2, q3}
    MaxInflightRequests = 3
INVARIANTS TypeOK SlotAccounting NoWriteAfterClose
PROPERTIES Served Drains
\* After CloseListeners the proxy stops once its connections are closed.
CHECK_DEADLOCK FALSE
