CONSTANTS
    Hosts <- MCHosts
    Blank = Blank
    a = a
    b = b
    c = c
    d = d
    Listings <- MCListings
    Concurrencies <- MCConcurrencies
    Roots <- MCRoots
    VendorOf <- MCVendorOf
    TextWords <- MCTextWords
    TextVendorOf <- MCTextVendorOf
    Mute <- MCMute
SPECIFICATION FairSpec
INVARIANTS BoundedProbes NoSlotIdle
PROPERTIES Promise OthersNotStarved
CHECK_DEADLOCK FALSE
