SPECIFICATION Spec
CONSTANTS
    SpeedTolerance = 5
    Scores = {100, 104, 109}
    Latencies = {0, 1}
    MaxRecords = 3
    Probes = 3
    Slack = 1
    MaxCount = 4
    MaxLength = 6
INVARIANTS RankingIsFair CoverageKept ExactIsFound PromptFits
\* The system stops when the input is complete.
CHECK_DEADLOCK FALSE
