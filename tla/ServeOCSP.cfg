SPECIFICATION Spec
CONSTANTS
    MaxRequest = 4
    Texts <- MCTexts
    Ders <- MCDers
INVARIANTS Unambiguous HandledWhole WithinLimitHandled
CHECK_DEADLOCK FALSE
