SPECIFICATION Spec
CONSTANTS
    MaxCredentials = 2
    Conns = {c1}
    NoConn = NoConn
    MaxFaults = 1
    StoreMayFail = FALSE
INVARIANT RenewalCanBeReplayed
