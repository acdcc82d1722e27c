SPECIFICATION Spec
CONSTANTS
    Tokens <- MCTokens
    Spellings <- MCSpellings
    NoteOf <- MCNoteOf
    Keys <- MCKeys
    Cjk <- MCCjk
    Gaps <- MCGaps
    SmallOf <- MCSmallOf
    AsciiCapitals <- MCAsciiCapitals
    StartTexts <- MCStartTexts
    EditBatches <- MCEditBatches
    ReplaceBatches <- MCReplaceBatches
    PropertyBatches <- MCPropertyBatches
    Queries <- MCQueries
    Filters <- MCFilters
    Alphabet <- MCAlphabet
    PathOf <- MCPathOf
    Relocations <- MCRelocations
    Schemed <- MCSchemed
    MaxTyped = 5
    MaxCalls = 1
INVARIANTS
    OthersStay
    EditsLand
    EchoIsNeutral
    HashesMatch
    HitsAreThere
    OtherKeysKept
    SearchFinds
    LinksReadBack
CHECK_DEADLOCK FALSE
