CONSTANTS
    NumRequests <- MCNumRequests
    Retries <- MCRetries
SPECIFICATION Spec
INVARIANTS
    TypeOK
    OneLiveAttempt
    RetryBudget
PROPERTIES
    AllAnswered
