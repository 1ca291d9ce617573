SPECIFICATION Spec
CONSTANTS
    e1 = e1
    e2 = e2
    Conversations <- MCConversations
    Extractions <- MCExtractions
    Chainings <- MCChainings
    MaxBuilds = 2
INVARIANTS
    TypeOK
    TurnsReachMembox
    MessagesBoxed
    TracesAccount
    
\* The sample is not ingested again.
CHECK_DEADLOCK FALSE
