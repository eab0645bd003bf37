CONSTANTS
    ServerOrder <- MCServerOrder
    PollRetries = 3
SPECIFICATION Spec
INVARIANT ExitCodeFaithful
INVARIANT StoreComplete
PROPERTY ResultsPublished
INVARIANT FlattenAsSpecified
