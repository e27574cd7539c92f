SPECIFICATION FairSpec
CONSTANTS
  Deliveries = {opened}
  Workers = {w1, w2}
  MaxRetries = 1
  ChannelEdits = TRUE
  MaxCopies = 1
  MaxCrashes = 1
INVARIANTS DeliveryInvariant OneSender SentMeansReceived DuplicatesOnlyByAmbiguity AttemptsBounded
PROPERTIES OutcomeOverwritten EventuallyDecided
CHECK_DEADLOCK FALSE
