CONSTANTS
    FifoDepth = 2
    StreamMod = 5
    CntMod = 8
    DmaMax = 4
    Requests <- const_Requests
SPECIFICATION Spec
INVARIANTS
    TypeOK
    CaptureCorrect
    NothingInFlight
    DmaNeverHalts
PROPERTIES
    CaptureEnds
    ServiceSpec
