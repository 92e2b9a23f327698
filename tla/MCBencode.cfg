SPECIFICATION Spec
CONSTANTS
    Byte = {"-", "0", "1", "2", "3", "4", "5", "6", "7", "8", "9", ":", "i", "e", " ", "d", "l"}
    Typed = {"-", "0", "1", "3", ":", "i", "e"}
    MaxInt = 15
    Nil = Nil
    MaxLen = 4
    Nest = 3
    Value <- MCValue
CHECK_DEADLOCK FALSE
INVARIANTS
    StringsAsWritten
    IntsAsWritten
    InputsAgree
    FailureKeepsInput
    CombinatorsAgree
    EncodedIsParsed
