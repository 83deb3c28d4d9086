SPECIFICATION PausedSpec
CONSTANTS
    Terminals = {t1, t2, t3}
    Usernames = {"admin", "ann", "bob"}
    Passwords = {"admin123", "pw"}
    Collate <- MCCollate
    MaxId <- PairMaxId
    Registrations <- PairRegistrations
SYMMETRY Sym
PROPERTIES
    VoterApprovedAtInsert
    CandidateApprovedAtInsert
