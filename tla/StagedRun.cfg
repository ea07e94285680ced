SPECIFICATION FairSpec
CONSTANTS
    Matrix <- MCMatrix
    Speculative <- MCSpeculative
    Identity <- MCIdentity
    Outcomes <- MCOutcomes
    Passed <- MCPassed
    ShortlistOf <- MCShortlist
    NoResult = NoResult
    Raised = Raised
    NoOne = NoOne
    Shortlisted = 1
INVARIANTS TypeOK MeasuredAlone WinnerQualified
PROPERTIES CompletedSurvive RunEnds
