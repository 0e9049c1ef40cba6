\* Three runs over two commits of different Kratos versions, changes by hand between them, and
\* anything failing.
SPECIFICATION DeploySpec
CONSTANTS
    absent = absent
    torn = torn
    edited = edited
    notCopied = notCopied
    Absent = absent
    Torn = torn
    Edited = edited
    NotCopied = notCopied
    Broken = {torn}
    Paths <- MCPaths
    Kratos <- MCKratos
    Releases = 2
    MaxRuns = 3
CHECK_DEADLOCK FALSE
INVARIANTS
    PreviousConfigIsNeverLost
    ResultTellsTheTruth
