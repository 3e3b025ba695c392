SPECIFICATION Spec
CONSTANTS
    MaxLines = 3
    Lengths = {2, 3}
    MaxMarks = 1
    Visibilities <- MCVisibilities
    ContextCounts = {0, 1}
    Heights = {2}
    WeightSteps = 1
INVARIANTS
    DisplayedAreShown
    ContextLinesExact
PROPERTIES
    OverviewExact
    RewritesTold
CHECK_DEADLOCK FALSE
