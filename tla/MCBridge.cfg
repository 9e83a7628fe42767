SPECIFICATION FairSpec
CONSTANTS
    Transfer <- apart
    Sender = {"alice", "bob"}
    Home = "TALANTON"
    Away = "DRACHMA"
    Validator = {"v1", "old"}
    Trusted = {"v1"}
    MinSigs = 2
    Confirmations = 1
    Payload = {0, 3}
    MaxListLength = 2
    U64 = 8
CHECK_DEADLOCK FALSE
INVARIANTS
    TypeOK
    PaidOnce
    Conservation
PROPERTIES
    ImplementsEscrow
    EveryTransferArrives
