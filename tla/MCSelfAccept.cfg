\* No faults: two bids, and an accept that has no account to pay from.
SPECIFICATION FairSpec
CONSTANTS
    b1 = b1
    b2 = b2
    Poster = Poster
    None = None
    Bidders = {b1, b2}
    Quantities = {1}
    BidQuantities = {1}
    MaxListings = 1
    MaxBids = 2
    MaxTurns = 0
    MaxDbFails = 0
    MaxCrashes = 0
INVARIANT NoSelfAccept
CHECK_DEADLOCK FALSE
