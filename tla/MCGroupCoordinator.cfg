\* Two groups sharing three ids: every order of join, sync, heartbeat, leave, expiry.
CONSTANTS
    GroupIds = {g1, g2}
    MemberIds = {1, 2, 3}
    Subscriptions = {s1}
    Strategies = {"range", "roundrobin"}
    NoProtocol = NoProtocol
    ProtocolLists <- MCProtocolLists
    Assignments = {none, a1}
    NoAssignment = none
    NoMember = NoMember
    SessionTimeouts = {0}
    DefaultSessionTimeout = 1
    MaxGeneration = 2
SPECIFICATION Spec
INVARIANTS TypeOK WaitsForSomebody SettledIsUnanimous
PROPERTIES OneGenerationOneMembership StaysFenced
