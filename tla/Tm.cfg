CONSTANTS
    IADDR_SIZE = 6
    DADDR_SIZE = 2
    WordBits = 4
    Files <- MCFiles
    Lines <- MCLines
    Answers <- MCAnswers
    Text = Text
    MaxLines = 3
SPECIFICATION Spec
INVARIANTS
    ShellTypeOK
    StepsAsAsked
    ClearedRunsRepeat
    CountersAddUp
    OutsideOnlyAtSize
PROPERTIES
    CommandsEnd
CHECK_DEADLOCK FALSE
