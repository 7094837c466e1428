CONSTANTS
    f1 = f1
    b1 = b1
    b2 = b2
    Calls <- OneAndTwo
    Background <- BothBackground
    GenerationTimeout = FALSE
SPECIFICATION Spec
INVARIANTS
    CancelStaysClean
