SPECIFICATION Spec
CONSTANTS
    RegistryLines <- ListFileLines
    DefinitionLines <- ExpertFileLines
    Dotted <- DottedKeys
    ExpertOf <- ConfigPaths
    Required <- RequiredPaths
    NoRef = NoRef
    MaxLines = 5
INVARIANTS
    LoadedAsWritten
    StoredWhereNested
CHECK_DEADLOCK FALSE
