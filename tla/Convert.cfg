SPECIFICATION Spec
CONSTANTS
    Plain <- MCPlain
    Leaves <- MCLeaves
    KeyLengths <- MCKeys
    Max1 = 3
    Max2 = 15
    Max4 = 255
    Max8 = 65535
    Doubles <- MCDoubles
    DecLen <- MCDecLen
    Rounded <- MCRounded
    MaxDepth = 4
    MaxValues = 5
    MaxVaried = 2
INVARIANTS
    SizesAgree
    BackAsItWent
    ValuesKept
CHECK_DEADLOCK FALSE
