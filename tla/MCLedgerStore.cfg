\* Lineage c1 without the lock, c2 with it.
SPECIFICATION FairSpec
CONSTANTS
    Writers = {w1, w2}
    Correlations = {"c1", "c2"}
    Locks = {"c1", "c2"}
    EventTypes <- MCEventTypes
    TerminalTypes <- MCTerminalTypes
    Discriminators <- MCDiscriminators
    Payloads <- MCPayloads
    Requests <- MCRequests
    LockOf <- LineageLocks
    Serialised = {"c2"}
INVARIANTS
    LedgerSound
PROPERTIES
    ImplementsLedger
    AppendsFinish
