\* A number that follows a longer one.
SPECIFICATION ConfigSpec
CONSTANTS
    Tokens <- MCTokens
    Width = 4
    Freshness = 300
    MaxTokens = 6
    MaxBefore = 0
INVARIANT
    NumbersAsWritten
CHECK_DEADLOCK FALSE
