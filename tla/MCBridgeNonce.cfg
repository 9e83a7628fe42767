SPECIFICATION FairSpec
CONSTANTS
    Transfer <- shared
    Sender = {"alice", "bob"}
    Home = "TALANTON"
    Away = "DRACHMA"
    Validator = {"v1", "v2", "old"}
    Trusted = {"v1", "v2"}
    MinSigs = 2
    Confirmations = 1
    Payload = {}
    MaxListLength = 2
    U64 = 8
CHECK_DEADLOCK FALSE
PROPERTY
    EveryTransferArrives
