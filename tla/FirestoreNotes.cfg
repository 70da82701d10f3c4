\* One account on one device, another device, one note.
CONSTANTS
    Users = {alice}
    NoteIds = {id1}
    Details = {old, new}
    NoUser = NoUser
    Absent = Absent
    MaxLoads = 1
    MaxPipeline = 2
    MaxWrites = 2
    MaxCommits = 3
    MaxChanges = 0
SPECIFICATION Spec
SYMMETRY Symmetry
INVARIANTS
    TypeOK
    WritesSurvive
    LastCallWins
    CacheIsServerVersion
    TrackerAssertions
PROPERTIES
    CacheMovesForward
    ImplementsContract
