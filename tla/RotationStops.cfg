SPECIFICATION Spec
CONSTANTS
    MaxCredentials = 2
    Conns = {c1, c2}
    NoConn = NoConn
    MaxFaults = 0
    StoreMayFail = FALSE
PROPERTY StopsOnlyWhenUnusable
