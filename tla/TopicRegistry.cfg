\* Two clients that create one topic of up to three partitions, I/O failures and crashes at every file operation.
CONSTANTS
    Topics = {t1}
    Offsets = offsets
    Clients = {c1, c2}
    MaxPartitions = 3
    Asked = {defaults, compact}
    Defaults = defaults
    Neutered = neutered
    OffsetsPartitions = 3
    NoMeta = NoMeta
    NoRequest = NoRequest
SPECIFICATION Spec
INVARIANTS StartsAgain TopicsAreWhole OffsetsNeverAge
PROPERTY StoredConfigWins
CHECK_DEADLOCK FALSE
