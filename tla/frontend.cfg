SPECIFICATION MCSpec
CONSTANTS
    Texts <- MCTexts
    MaxChars = 5
    MaxLength = 6
    MaxTokens = 64
    MaxNodes = 8192
INVARIANT TypeOK
INVARIANT TilesTheText
INVARIANT RefusesOnlyNonsense
INVARIANT ParsesBack
INVARIANT AcceptsTheGrammar
