SPECIFICATION Spec
CONSTANTS
    Texts <- MCTexts
    Sizes = {2, 20, 32}
INVARIANT
    Int64Whole
