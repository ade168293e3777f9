CONSTANTS
    Topic <- MCTopic
    Failing <- MCFailing
    LogCount <- MCLogCount
    MaxBlock = 4
    BatchSize = 2
    RetryCount = 2
    MinPeers = 1
    MaxPeers = 1
    MaxFailures = 2
    MaxRestarts = 1
SPECIFICATION Spec
PROPERTIES
    ImplementsEventFeed
