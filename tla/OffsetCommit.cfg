\* Two consumers and a standalone client; handler threads may stall for any time.
CONSTANTS
    Consumers = {c1, c2}
    GroupIds = {g}
    TheGroup = g
    MemberIds = {1, 2}
    Subscriptions <- MCSubscriptions
    Strategies = {"range"}
    NoProtocol = NoProtocol
    ProtocolLists <- MCProtocolLists
    Assignments <- MCAssignments
    NoAssignment = {}
    NoMember = NoMember
    SessionTimeouts = {1}
    DefaultSessionTimeout = 1
    MaxGeneration = 2
    TopicsOf <- OneTopic
    StrategyOf <- AllRange
    PartitionCount <- MCPartitionCount
    MaxRounds = 2
    MaxCrashes = 1
    Follow = FALSE
    Traffic = TRUE
    Prompt = FALSE
    Solos = {s1}
    Rewinds = {1}
    Records = 2
    Tombstone = Tombstone
    NoPosition = NoPosition
    NoOp = NoOp
    MaxLog = 2
    Unknown = Unknown
    Nothing = Nothing
SPECIFICATION OCSpec
SYMMETRY Interchangeable
INVARIANTS AtLeastOnce ExclusiveOwnership
