\* Command lines of up to three options, the limit being two; a server that
\* sends two header lines and two pieces of a body.
SPECIFICATION Spec
CONSTANTS
    NoText = NoText
    INITIAL_CAPACITY = 2
    HeaderLines <- ServerLines
    Chunks <- Pieces
    StatusCodes = {0, 2, 4}
    MaxLines = 2
    MaxChunks = 2
    MAX_ASSERTION = 2
    FlagStatus <- Status
    FlagBody <- Body
    FlagHeader <- Header
    HexPrefix <- HexWord
    CommandLines <- Lines
    Targets <- Get
    OldAnswers <- Earlier
    INT_MAX = 4
    MaxFailures = 1
INVARIANTS Received BuffersFit Parses VerdictTrue OwnedOnce
CHECK_DEADLOCK FALSE
