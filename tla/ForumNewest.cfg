SPECIFICATION Spec
CONSTANTS
    Readers = {r1}
    Limit = 2
    MaxPosts = 3
    MaxTime = 1
INVARIANTS
    NewestFirst
