SPECIFICATION Spec
CONSTANTS
    MaxDepth = 64
    MaxPasses = 32
    Cpus = {"mn1613", "tms9995"}
    Mains <- MCMains
    Beginnings <- MCBeginnings
    Lines <- MCLines
    MaxLines = 3
INVARIANTS
    LinkedAsWritten
    WordsApart
    NamesAsPlaced
    MacroLocalsUnique
CHECK_DEADLOCK FALSE
