CONSTANTS
    MaxChecks = 2
    Titles <- MCTitles
    Languages <- MCLanguages
    Supported = {"sv", "it"}
    Texts <- MCTexts
    TranslationOf <- MCTranslationOf
    Matches <- MCMatches
    Finds <- MCFinds
    Retries = 1
    MaxCrawls = 2
SPECIFICATION TitleSpec
INVARIANTS NoChildIsLeft SortedRightly
PROPERTIES WindowIsNotHeld
CHECK_DEADLOCK FALSE
