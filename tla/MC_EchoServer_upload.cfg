CONSTANTS
    SampleBytes = 3
    WordBytes = 2
    Align = 2
    SndBuf = 4
    U16 = 64
    MaxData = 3
    InitSize = 3
    BufBytes = 6
    CmdBytes = 2
    FftSizes <- const_FftSizes
    Numbers <- const_Numbers
    Digits <- const_Digits
    MaxLinger = 1
    MaxMishaps = 0
    Scripts <- upload_Scripts
SPECIFICATION Spec
INVARIANTS
    UploadIntact
CHECK_DEADLOCK FALSE
