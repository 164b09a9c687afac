\* Two bids, one counter-offer, one failing write or one crash, one peer accept.
SPECIFICATION FairSpec
CONSTANTS
    b1 = b1
    b2 = b2
    Poster = Poster
    None = None
    Bidders = {b1, b2}
    Quantities = {1, 2}
    MaxListings = 2
    BidQuantities = {1}
    MaxBids = 2
    MaxTurns = 1
    MaxDbFails = 1
    MaxCrashes = 1
CONSTRAINT Disturbances
CHECK_DEADLOCK FALSE
INVARIANTS
    FirstAcceptWins
    OneLiveListing
    ConsumedIsSold
PROPERTIES
    UndoneAsBefore
    AcceptEnds
