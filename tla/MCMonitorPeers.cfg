CONSTANTS
    Topic <- MCTopic
    Failing <- MCFailing
    LogCount <- MCLogCountShort
    MaxBlock = 3
    BatchSize = 2
    RetryCount = 2
    MinPeers = 1
    MaxPeers = 1
    MaxFailures = 1
    MaxRestarts = 0
SPECIFICATION Spec
PROPERTIES
    ProcessOnlyWithPeers
