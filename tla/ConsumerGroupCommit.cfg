\* Two healthy consumers with records to commit.
CONSTANTS
    c1 = c1
    c2 = c2
    Consumers = {c1, c2}
    GroupIds = {g}
    TheGroup = g
    MemberIds = {1, 2, 3}
    Subscriptions <- MCSubscriptions
    Strategies = {"range"}
    NoProtocol = NoProtocol
    ProtocolLists <- MCProtocolLists
    Assignments <- MCAssignments
    NoAssignment = {}
    NoMember = NoMember
    SessionTimeouts = {20}
    DefaultSessionTimeout = 20
    MaxGeneration = 9
    TopicsOf <- OneTopic
    StrategyOf <- AllRange
    PartitionCount <- MCPartitionCount
    MaxRounds = 5
    MaxCrashes = 0
    Follow = TRUE
    Traffic = TRUE
    Prompt = TRUE
SPECIFICATION CSpec
INVARIANT RebalanceIsNotAFailure
