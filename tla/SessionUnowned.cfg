\* What [unowned self] in setupGoogle asserts, refuted.
CONSTANTS
    Users = {alice}
    NoUser = NoUser
    MaxCalls = 2
    MaxRoutes = 1
SPECIFICATION Spec
INVARIANT
    UnownedSelfIsAlive
