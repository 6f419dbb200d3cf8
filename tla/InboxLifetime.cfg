SPECIFICATION FairLife
CONSTANTS
    short = short
    middle = middle
    long = long
    Item = {short, middle, long}
    Lifetime <- MCLifetime
    Unlimited = Unlimited
    MaxBreaks = 1

    
PROPERTY ListExpires
CHECK_DEADLOCK FALSE
