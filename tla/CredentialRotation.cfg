SPECIFICATION Spec
CONSTANTS
    MaxCredentials = 3
    Conns = {c1, c2}
    NoConn = NoConn
    MaxFaults = 1
    StoreMayFail = TRUE
SYMMETRY Symmetry
INVARIANTS
    TypeOK
    RevokedAgentHasNoCredential
    KeepsUsableIdentity
    AtMostTwoLive
    ActiveSerialIsLive
