CONSTANTS
    ReplicaCount = 4
    LeaderId = 0
    PrepareQuorum = 3
    CommitQuorum = 3
    ReplyQuorum = 2
    ClientId <- MCClientId
    None = None
    PassiveChoices <- MCPassiveChoices
    Pings = {2, 4, 6}
    ClientPings = {2}
SPECIFICATION Spec
INVARIANT NoInvalidMessage
INVARIANT FinishAtQuorum
PROPERTY ClientFinishes
