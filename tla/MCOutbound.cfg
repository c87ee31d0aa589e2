\* Up to five calls of setters, so that both required fields are set and
\* others before, between and behind them, some of them twice.
SPECIFICATION Spec
CONSTANTS
    SubscriberValues <- SomeSubscribers
    ConnectorValues <- SomeConnectors
    ByHand <- SomeMessages
    MaxCalls = 5
INVARIANTS
    LastCallStands
    ReadAsMeant
\* A message is encoded once.
CHECK_DEADLOCK FALSE
