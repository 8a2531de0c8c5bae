CONSTANTS
    Wallets = {b1, b2}
    Callers = {lending, stranger}
    NoCaller = NoCaller
    Supply = 3
SPECIFICATION Spec
INVARIANT TypeOK
INVARIANT PendingCovered
PROPERTY ImplementsEscrow
CHECK_DEADLOCK FALSE
