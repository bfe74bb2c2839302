SPECIFICATION PartsSpec
CONSTANTS
    Globals = {g}
    Locals = {x}
    Values <- Bits
    Nil = 0
    MaxFrames = 4
    MaxVars = 2
    MaxDepth = 4
    Evals = {e1, e2}
    Durations = {0, 3}
    EvalDirect = FALSE
    EcThreshold = 1
    Upper = 2
    Lower = 1
    MaxEvals = 3
    MaxQueries = 2
    NumSites = 3
    Shapes <- MCShapes
    Elements <- MCElements
    UserTiles <- MCUserTiles
    Overlaps <- MCOverlaps
    TileNumbers = {2, 3, 4}
    Diagonals <- MCDiagonals
    Junk = Junk
    MaxSteps = 2
    Functions <- MCFunctions
    Lambdas = {"lambda", "inner"}
    Program = "program"
    Parent <- MCParent
    Own <- MCOwn
    Optional <- MCOptional
    Applied = {"apply"}
    Returned <- MCReturned
    Passed <- MCPassed
    Assigned <- MCAssigned
    Mapped <- MCMapped
    MaxCalls = 4
    Literals <- MCLiterals
    Ranges <- MCRanges
    Inserted = {5}
    Slicings <- MCSlicings
    RangeSlicings <- MCRangeSlicings
    None = None
    MaxLength = 5
    MaxListSteps = 3
CHECK_DEADLOCK FALSE
INVARIANTS
    TypeOK LookupIsLexical GlobalsVisible
    DirectTypeOK DividesByZeroOnlyAfterReset NothingCountedTwice
    TiledTypeOK TilesAgree NobodyWaits AnswersAgree
    CallsTypeOK ParametersReadArguments OnlyCallsEvaluate
    ListsTypeOK ListHoldsItsElements RefusesOnlyNonsense
PROPERTIES
    LocalsPrivate
    PinnedStaysPinned
    ActsAsOneArray
