SPECIFICATION Spec
CONSTANTS
    Tokens <- Vocabulary
    StopSets <- Stops
    MaxTokens = 4
    PromptLen = 2
INVARIANTS StreamedIsText HoldbackSuffices ReasonIsTrue
PROPERTY Ends
