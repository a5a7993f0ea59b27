SPECIFICATION PFSpec
CONSTANTS
    Window = 1
    ClientLimit = 2
    PodLimit = 2
    MaxClientChunks = 2
    MaxPodChunks = 2
CHECK_DEADLOCK FALSE
PROPERTY LostConnectionEndsForward
