SPECIFICATION FairSpec
CONSTANTS
    Files = {"a"}
    Directories = {"logs"}
    Directory <- MCDirectory
    Policies <- MCPolicies
    Interval = 2
    MaxStamps = 3
    MaxCalls = 3
    MaxPosted = 2
INVARIANTS
    NoChangeForgotten
PROPERTIES
    ChangesSeen
CHECK_DEADLOCK FALSE
