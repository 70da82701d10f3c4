\* Two accounts; a route may be on its way when a button is pressed.
CONSTANTS
    Users = {alice, bob}
    NoUser = NoUser
    MaxCalls = 1
    MaxRoutes = 2
    NoteIds = {id1}
    Details = {old}
    Absent = Absent
    NoRow = NoRow
    MaxLoads = 1
SPECIFICATION Spec
SYMMETRY Symmetry
VIEW Seen
INVARIANTS
    NotesNeedUser
    HomeKeepsItsUser
PROPERTY
    ImplementsNoteList
