\* Two consumers that act promptly, a topic of two partitions; one may crash.
CONSTANTS
    c1 = c1
    c2 = c2
    Consumers = {c1, c2}
    GroupIds = {g}
    TheGroup = g
    MemberIds = {1, 2, 3}
    Subscriptions <- MCSubscriptions
    Strategies = {"range"}
    NoProtocol = NoProtocol
    ProtocolLists <- MCProtocolLists
    Assignments <- MCAssignments
    NoAssignment = {}
    NoMember = NoMember
    SessionTimeouts = {4}
    DefaultSessionTimeout = 4
    MaxGeneration = 9
    TopicsOf <- OneTopic
    StrategyOf <- AllRange
    PartitionCount <- MCPartitionCount
    MaxRounds = 3
    MaxCrashes = 1
    Follow = FALSE
    Traffic = TRUE
    Prompt = TRUE
SPECIFICATION CFairSpec
INVARIANT OwnsWhatWasAssigned
PROPERTY GroupSettles
