\* Scalars from the text to the typed answer, and paths through three trees.
SPECIFICATION CanonicalSpec
CONSTANTS
    None = None
    Default = Default
    MaxInt = 15
    MaxSafe = 7
    Steps = {1, 2, 4, 8, 16}
    PathLength = 4
    Octal <- MCOctal
    Digit <- MCDigit
    MaxIndex = 15
    Levels = 3
    Token <- MCToken
    Node <- MCNode
    Cases <- MCCases
    Asked <- MCAsked
    Serialised <- MCSerialised
    Code <- MCCode
    MaxPlain = 6
    TreeOf <- MCTreeOf
    Height <- MCHeight
INVARIANTS
    IntIsExact
    JsonYamlParity
    NormalisedAnyway
    SectionMatchesGetter
    SectionErrorReadsBack
    ErrorPathReadsBack
    EveryNodeReachable
    DefaultOnlyWhenAbsent
    TextTellsTreesApart
