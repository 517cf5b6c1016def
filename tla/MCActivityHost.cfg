SPECIFICATION LiveSpec
CONSTANTS
    MaxCalls = 6
INVARIANTS ConsumerKeepsRing ReadyIsCurrent StatusIsTruthful
PROPERTIES TeardownHappens
CHECK_DEADLOCK FALSE
