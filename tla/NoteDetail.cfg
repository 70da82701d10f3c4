\* Two objects, one of them shown, with two contents; two detail screens.
CONSTANTS
    Paths = {scan, photo}
    Shown = {scan}
    Contents = {page1, page2}
    NoDoc = NoDoc
    MaxScreens = 2
SPECIFICATION FairSpec
INVARIANTS
    TypeOK
    ShowsWhatWasHeld
    SuccessIsShown
PROPERTY
    EveryDownloadIsAnswered
