SPECIFICATION Spec
CONSTANTS
    Readers = {r1}
    Limit = 2
    MaxPosts = 5
    MaxTime = 2
INVARIANTS
    NewestFirstBySecond
PROPERTIES
    ReaderMissesNothing
