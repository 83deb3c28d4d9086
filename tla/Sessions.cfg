SPECIFICATION FairSpec
CONSTANTS
    Terminals = {t1, t2}
    Usernames = {"admin", "ann", "Ann", "bob"}
    Passwords = {"admin123", "pw"}
    Collate <- MCCollate
    MaxId <- NameMaxId
    Registrations <- NameRegistrations
INVARIANTS
    LoginUnambiguous
    SessionMatchesAccount
    ElectionPromises
PROPERTIES
    CastVoteReturns
