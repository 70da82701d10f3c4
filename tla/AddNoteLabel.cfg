\* What the comment in documentPicker says, refuted.
CONSTANTS
    Users = {alice, bob}
    Files = {scan}
    Contents = {page1, page2}
    Texts = {text}
    NoUser = NoUser
    NoDoc = NoDoc
    Empty = Empty
    MaxSheets = 2
    MaxUploads = 2
    MaxNotes = 1
SPECIFICATION Spec
INVARIANT
    PickedFileIsDisplayed
