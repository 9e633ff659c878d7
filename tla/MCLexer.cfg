SPECIFICATION Spec
CONSTANTS
    Alphabets <- MCAlphabets
    Letters <- MCLetters
    Digits <- MCDigits
    Wide <- MCWide
INVARIANTS
    TokensCoverTheText
    PartsSpellTheWord
    WordsParse
CHECK_DEADLOCK FALSE
