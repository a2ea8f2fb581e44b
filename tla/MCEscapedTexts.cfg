\* Escapes: every byte, the boundaries of the encodings, short texts
SPECIFICATION Spec
CONSTANTS
    CharTexts <- MCCharTexts
    UnicodeTexts <- MCUnicodeTexts
INVARIANTS
    WrittenReadsBack
    RefusedIsReported
    StringsAreWellFormed
    ReadersAgree
    AlignmentHasBackslash
CHECK_DEADLOCK FALSE
