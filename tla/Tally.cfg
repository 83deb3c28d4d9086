SPECIFICATION Spec
CONSTANTS
    VoterNames = {ann, amy}
    CandidateNames = {bob, bea}
    Terminals = {t1}
    Usernames <- MCUsernames
    Passwords = {"admin123", "pw"}
    Collate <- MCCollate
    MaxId <- MCMaxId
    Registrations <- MCRegistrations
SYMMETRY Sym
INVARIANTS
    EveryVoteCountedOnce
    TurnoutBounded
    RanksFollowVoters
PROPERTIES
    CountsNeverFall
