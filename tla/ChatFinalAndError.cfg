SPECIFICATION Spec
CONSTANTS
    r1 = r1
    r2 = r2
    Reader = Reader
    Requests = {r1, r2}
    Lines <- MCLines
    MaxLines <- MCMaxLines
    CapSets <- MCCapSets
    MaxTokens <- MCMaxTokens
CHECK_DEADLOCK FALSE
INVARIANTS
    ErrorInstead
