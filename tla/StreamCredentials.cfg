\* Two changes of user or token among two accounts while the stream is closed and
\* started again.  Liveness: no symmetry.
CONSTANTS
    Users = {alice, bob}
    NoUser = NoUser
    MaxChanges = 2
    MaxCloses = 1
SPECIFICATION FairSpec
INVARIANTS
    TypeOK
    WritesUnderTheirUser
    ResumeFindsStarting
PROPERTY
    StartingEnds
CHECK_DEADLOCK FALSE
