\* Two accounts, two file names, each with two contents, two sheets.
CONSTANTS
    Users = {alice, bob}
    Files = {scan, photo}
    Contents = {page1, page2}
    Texts = {text}
    NoUser = NoUser
    NoDoc = NoDoc
    Empty = Empty
    MaxSheets = 2
    MaxUploads = 2
    MaxNotes = 1
SPECIFICATION Spec
SYMMETRY Symmetry
INVARIANTS
    TypeOK
    AttachmentExists
    AttachmentKeepsContent
    LabelNamesAttachment
    AttachmentFromOwnSheet
