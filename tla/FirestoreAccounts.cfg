\* Two accounts on one device, a change of user between calls and their answers.
CONSTANTS
    Users = {alice, bob}
    NoteIds = {id1}
    Details = {old, new}
    NoUser = NoUser
    Absent = Absent
    MaxLoads = 1
    MaxPipeline = 1
    MaxWrites = 3
    MaxCommits = 1
    MaxChanges = 1
SPECIFICATION Spec
SYMMETRY Symmetry
INVARIANT
    WritesSurvive
PROPERTY
    ImplementsContract
