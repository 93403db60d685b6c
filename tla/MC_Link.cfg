CONSTANTS
    NumDelays = 3
    Eyes <- MCEyes
    Attens = {1}
    MaxAtten = 3
    SetupAtten = 2
    Freqs = {30720, 61440}
    Configs <- MCConfigs
    SetupChain <- MCSetupChain
    SetupDelay <- MCSetupDelay
    PathClks <- MCPathClks
    Tones = {0, 2}
    AskedTones <- MCTones
    AskedModes = {"alert", "rx"}
    MaxCalls = 3
SPECIFICATION Spec
CHECK_DEADLOCK FALSE
INVARIANTS
    TypeOK
    PnMuted
    SourceKept
    TonesKept
PROPERTIES
    AttenGivenBack
    DelaysPass
    FirRuns
    RateMet
