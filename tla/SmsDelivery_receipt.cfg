SPECIFICATION MCSpec
CONSTANTS
    long = long
    short = short
    other = other
    peer = peer
    Messages = {long, short, other}
    Parts <- TwoParts
    Peer <- OnePeer
    References = 2
    StoreFaults = FALSE
INVARIANTS
    ReceiptsWin
