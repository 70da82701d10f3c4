\* Two accounts, two calls under way.  Liveness: no symmetry.
CONSTANTS
    Users = {alice, bob}
    NoUser = NoUser
    MaxCalls = 2
    MaxRoutes = 2
SPECIFICATION FairSpec
INVARIANTS
    TypeOK
    LandingNeedsUser
    StuckOnlyByLateAnswerOrProfile
    ProfilesHaveAccounts
PROPERTIES
    LoginLeavesPage
    LogoutLeavesLanding
