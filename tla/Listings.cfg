SPECIFICATION ListSpec
CONSTANTS
    Terminals = {t1, t2}
    Usernames = {"admin", "ann", "bob"}
    Passwords = {"admin123", "pw"}
    Collate <- MCCollate
    MaxId <- MCMaxId
    Registrations <- MCRegistrations
SYMMETRY Sym
INVARIANTS
    ListedMeansSame
    ListsAgree
PROPERTIES
    PendingUntilDecided
