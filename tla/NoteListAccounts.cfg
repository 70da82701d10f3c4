\* Two accounts and the change from one to the other, two loads.  Liveness: no
\* symmetry.
CONSTANTS
    Users = {alice, bob}
    NoteIds = {id1}
    Details = {old, new}
    NoUser = NoUser
    Absent = Absent
    NoRow = NoRow
    MaxLoads = 2
SPECIFICATION FairSpec
INVARIANTS
    TypeOK
    RowsTraceToOpenReads
    DuplicatesNeedOverlap
    SettledListIsCurrent
    HomeShowsDataSource
PROPERTIES
    EditsStayInTheirAccount
    EveryReadIsAnswered
