CONSTANTS
    NumRequests <- MCNumRequests
    Retries <- MCRetries
SPECIFICATION Spec
PROPERTY
    ImplementsClientPromises
