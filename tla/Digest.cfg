SPECIFICATION Spec
CONSTANTS
    Calls = {"register", "login"}
    Bytes <- EdgeBytes
    HashLen = 2
INVARIANTS
    ReadsBack
    TextsCompareDigests
CHECK_DEADLOCK FALSE
