SPECIFICATION Spec
CONSTANTS
    NoFrame = NoFrame
    MaxTid = 7
    Window = 1
    HintSize = 4
    CounterSize = 16
    PingChannels = {0, 1, 2}
    PingTids = {0, 1, 2}
    PingQueue = 2
    MaxPings = 4
    MaxPingsLost = 2
    Sleepers = {"c1"}
    Sources = {"e"}
    MaxStoreClients = 2
    StoreQueue = 2
    OrderQueue = 3
    OutQueue = 2
    MaxPollSends = 1
    MaxPolls = 3
    MaxRestarts = 1
    MaxPortSends = 2
    MaxPortPolls = 1
    MaxOrderSends = 3
    MaxOrderPolls = 2
INVARIANTS
    TypeOK
    QueueSound
    TableSound
    EndsAgree
    NoneForgottenQuietly
    AcksTrue
    SecureInOrder
    PingTrue
    PollsOnce
    OwnFramesOnly
    Followed
PROPERTIES
    OldestFirst
    
CHECK_DEADLOCK FALSE
