SPECIFICATION FairSpec
CONSTANTS
    Op = {o1, o2}
    r1 = r1
    r2 = r2
    o1 = o1
    o2 = o2
    Remote = {r1, r2}
    Senders <- OneOrTwo
    MaxOffers = 2
    MaxAnswers = 2
CHECK_DEADLOCK FALSE
INVARIANTS TypeOK ApprovedEach NoStaleOffer ButtonsWork
PROPERTY AcceptedStarts
