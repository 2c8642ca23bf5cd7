SPECIFICATION MembersSpec
CONSTANTS
    reputation = reputation
    court = court
    alice = alice
    bob = bob
    platformKey = platformKey
    aliceKey = aliceKey
    bobKey = bobKey
    Processes <- Programs
    Keys = {platformKey, aliceKey, bobKey}
    KeyOf <- MCKeyOf
    NameOf <- MCNameOf
    AgentIds = {a1, a2, a3}
    MaxTime = 1
    MaxFaults = 1
    NoOne = NoOne
    Tasks = {t1}
    Categories = {"delivery_quality"}
    Ratings = {"dissatisfied", "satisfied"}
    Service = reputation
CONSTRAINT OneDissatisfied
SYMMETRY Symmetry
INVARIANTS
    MembersTypeOK
    OneIdPerKey
    ScanSucceeds
    VisibleIffMutual
    OneRatingPerOwner
PROPERTIES
    RatingsImmutable
CHECK_DEADLOCK FALSE
