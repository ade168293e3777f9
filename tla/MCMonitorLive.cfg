CONSTANTS
    Topic <- MCTopic
    Failing <- MCFailing
    LogCount <- MCLogCountShort
    MaxBlock = 3
    BatchSize = 2
    RetryCount = 1
    MinPeers = 0
    MaxPeers = 0
    MaxFailures = 1
    MaxRestarts = 1
SPECIFICATION FairSpec
PROPERTIES
    EventuallyProcessed
