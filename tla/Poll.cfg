SPECIFICATION Spec
CONSTANTS
    Terminals = {t1, t2}
    Usernames = {"admin", "ann", "bob", "oli"}
    Passwords = {"admin123", "pw"}
    Collate <- MCCollate
    MaxId <- PollMaxId
    Registrations <- PollRegistrations
SYMMETRY Sym
INVARIANTS
    TypeOK
    BallotIntegrity
    BallotListApprovedByAdmin
    ApplicationsWellFormed
PROPERTIES
    ApplicationsKept
