\* Three reads of one account, with failing streams and a restart of the network.
CONSTANTS
    Users = {alice}
    NoteIds = {id1}
    Details = {old}
    NoUser = NoUser
    Absent = Absent
    MaxLoads = 3
    MaxPipeline = 1
    MaxWrites = 0
    MaxCommits = 1
    MaxChanges = 1
SPECIFICATION FairSpec
PROPERTIES
    EveryReadIsRaised
    ImplementsContract
