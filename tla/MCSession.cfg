CONSTANTS
    a1 = a1
    a2 = a2
    b1 = b1
    alice = alice
    bob = bob
    NIL = NIL
    Ids = {a1, a2, b1}
    Clients = {alice, bob}
    ClientOf <- MCClientOf
    IdGreater <- MCIdGreater
SPECIFICATION FairHSpec
INVARIANT ListIsSequence PanicOnlyOnUnknownPrev IntentPreserved QuietCopyIsOneList
PROPERTY AddReturns RefinesSequence
CHECK_DEADLOCK FALSE
