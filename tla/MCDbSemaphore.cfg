SPECIFICATION FairSpec
CONSTANTS
    Procs = {p1, p2, p3, p4}
    Total = 2
INVARIANTS TypeOK TokensAreHolders WaitingIsExact ParkedOnlyWhenFull
PROPERTIES ImplementsPermits ParkedIsServed
