SPECIFICATION Spec
CONSTANTS
    IntOfNaN <- MCIntOfNaN
    MaxIncreasePct = 20
    MaxDecreasePct = 30
    MinConversionsForScale = 5
    MinDataDays = 7
    Cooldown = 2
    c1 = c1
    c2 = c2
    s1 = s1
    g1 = g1
    g2 = g2
    Listing <- MCListing
    TypeOf <- MCTypeOf
    Generators = {g1, g2}
    UserOf <- MCUserOf
    Worlds <- MCWorlds
INVARIANTS
    TypeOK
    NoRepeat
    UrgentFirst
    ActionOutranksKeep
    ApprovedAsWritten
PROPERTIES
    CheaperIsNoWorse
    OutliersAreFew
CHECK_DEADLOCK FALSE
