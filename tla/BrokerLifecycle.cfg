\* A broker bound to 127.0.0.1 or to every address, three clients that connect again and again.
CONSTANTS
    Clients = {c1, c2, c3}
    Loopback = TRUE
SPECIFICATION Spec
INVARIANT StopsInOrder
PROPERTIES StopReturns HangsUp
CHECK_DEADLOCK FALSE
