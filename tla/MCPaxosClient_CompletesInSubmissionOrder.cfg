CONSTANTS
    NumRequests <- MCNumRequests
    Retries <- MCRetries
SPECIFICATION Spec
INVARIANT CompletesInSubmissionOrder
