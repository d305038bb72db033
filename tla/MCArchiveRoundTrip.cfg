CONSTANTS
    a = a
    b = b
    c = c
    broken = broken
    cut = cut
    up = up
    slash = slash
    NoContent = NoContent
    NoCount = NoCount
    Absent = Absent
    Names <- MCNames
    Contents <- MCContents
    RawLen <- MCRawLen
    StoredLen <- MCStoredLen
    Sources <- MCSources
    BadNames = {9}
    MaxPathLen = 3
    Changes <- MCChanges
    MaxChanges = 1
    OutDir <- OutputDir
    TmpName = 4
    Unfinished = cut
    Archives <- MCArchives
    Trees <- MCTrees
    OtherComponents = {up, slash}
    Garbage = {broken}
    MaxEntries = 6
    MaxEntrySize = 4
    MaxTotal = 5
    PreserveExec = FALSE
SPECIFICATION RoundTripSpec
INVARIANTS
    BudgetKept
    HostileIsContained
    AnswerIsExact
    WalkIsKept
    OutputIsTheSelection
    OriginalsRestored
    ClearArchiveIsGone
PROPERTIES
    ReplacesAtomically
    Returns
CHECK_DEADLOCK FALSE
