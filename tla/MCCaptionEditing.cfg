SPECIFICATION Spec
CONSTANTS
    PauseMs = 350
    MinPageMs = 600
    MaxPageMs = 4000
    TargetCps = 15
    MaxCps = 22
    TailMs = 190
    MinWordMs = 40
    Unit = 100
    Duration = 2400
    Window = 2
    NoStyle = NoStyle
    GenerateAttempts = 2
    MaxEffort = 11
    MaxGenerations = 1
    Effort <- MCEffort
    LimitsOf <- MCLimitsOf
    Look <- MCLook
    Replaced <- MCReplaced
    Words <- MCWords
    Raw <- MCRaw
    Styles <- MCStyles
    StylePatches <- MCStylePatches
    Tokens <- MCTokens
    OtherKinds <- MCOtherKinds
CHECK_DEADLOCK FALSE
INVARIANTS
    TypeOK
    CaptionFidelity
    ConstraintsHonoured
    VersionNamesContent
PROPERTIES
    PagesNeverDrift
    LatestStyleSurvives
