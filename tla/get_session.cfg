SPECIFICATION Spec
CONSTANT
    SessionCount = 4
INVARIANTS
    TypeOK
    LoopFindsFirstFree
PROPERTY
    SearchEnds
