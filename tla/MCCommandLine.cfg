CONSTANTS
    nothing = nothing
    short = short
    weak = weak
    good = good
    strong = strong
    Passwords <- MCPasswords
    LengthOf <- MCLengthOf
    ScoreOf <- MCScoreOf
    MinLength = 12
    RequiredScore = 3
    Empty = nothing
    Outcomes = {"WrongPassword", "Corrupted", "Truncated", "Cancelled", "InvalidHeader", "Io", "Crypto", "Archive"}
SPECIFICATION Spec
INVARIANTS
    EchoIsHandled
    PolicyIsApplied
CHECK_DEADLOCK FALSE
