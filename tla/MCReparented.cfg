SPECIFICATION ParserSpec
CONSTANTS
    Widths <- MCWidths
    Lengths = {1, 6}
    MaxDepth = 4
    TargetChars = 3
    MaxChars = 5
INVARIANTS
    TopIsKept
