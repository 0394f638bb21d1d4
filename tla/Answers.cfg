SPECIFICATION Spec
CONSTANTS
    MaxParts = 2
    MaxNumber = 4
    MaxTerms = 4
    MaxThread = 3
    MaxRaw = 6
    MaxDepth = 3
    MaxName = 3
    MaxLines = 4
    MaxHits = 4
INVARIANTS
    
    RightContents
    TextReadsBack
    AnswersAreOwn
CHECK_DEADLOCK FALSE
