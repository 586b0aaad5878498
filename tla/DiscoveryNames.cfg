SPECIFICATION Spec
CONSTANTS
    p1 = p1
    p2 = p2
    p3 = p3
    b4 = b4
    b6 = b6
    Ident = {p1, p2, p3}
    Hostname <- Hostnames
    Browser = {b4, b6}
    Manual = {m1}
    MaxCalls = 3
CHECK_DEADLOCK FALSE
INVARIANTS TypeOK OneMachine UniqueNames CancelledStoresNothing EndStopsAll SearchEnds BrowsersGoOn
SYMMETRY Alike
