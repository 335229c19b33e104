\* Fourteen tokens are the shortest file with three expectations for a case,
\* eight the shortest with three cases: one more than the limits.
SPECIFICATION Spec
CONSTANTS
    MaxCases = 2
    MaxAssertions = 2
    MaxTokens = 14
INVARIANTS TypeOK Recognizes PlanIsText TokensOwned NothingKept
PROPERTIES ParsingEnds
CHECK_DEADLOCK FALSE
