SPECIFICATION PartsSpec
CONSTANTS
    One = One
    Another = Another
    Third = Third
    Fourth = Fourth
    None = None
INVARIANTS
    TypesOK
    ViewsAgree
    PlaceAgrees
    
    OnlyItselfBlocks
    FetchedOnce
    SharingAgrees
    TracksDecoded
    SamplesSurvive
    PlayerAgrees
    ComposeAgrees
    NavigationAgrees
    PickersAgree
    RecordsAgree
    UploadsAgree
    SettingsAgree
CHECK_DEADLOCK FALSE
